---- MODULE Spec2Model ----
(***************************************************************************)
(* DataParser (column mapping, value coercion, row validation, parseFile)  *)
(* of the salary dashboard, as a state machine over bounded inputs.        *)
(*                                                                         *)
(* JavaScript values are tagged records:                                   *)
(*   [t |-> "str", s |-> <<chars>>]   a string, one character per element  *)
(*   [t |-> "num", m |-> i, e |-> k]  the number i / 10^k, in lowest form  *)
(*   [t |-> "nan"]                    NaN                                  *)
(*   [t |-> "undefined"]              undefined                            *)
(*   [t |-> "fn"]                     a function object (Object)           *)
(* A header is [pre, txt, cas, post]: txt written in letter case cas with  *)
(* pre leading and post trailing blanks, so that toLowerCase and trim are  *)
(* computed, not assumed.  A message is a sequence of text pieces whose    *)
(* concatenation is the JavaScript string.                                 *)
(***************************************************************************)
EXTENDS Integers, Sequences, FiniteSets, TLC

VARIABLES
  pc,            \* position of the parseFile invocation / of the unit run
  file,          \* the File handed to parseFile: [ext, headers, cells]
  expectedType,  \* parseFile's second argument
  result,        \* the FileUploadResult the promise resolved to, or NoResult
  trace,         \* what the run did: stage reached, rows mapped, validation
  input,         \* unit run: the argument of the function under test
  output,        \* unit run: what the function returned
  processedEmployees,  \* App: the employee list
  uploadedFiles,       \* App: the FileUploadResults received so far
  totalBudget,         \* App: the budget
  app,                 \* App: currentView, error, isLoadingSession,
                       \* showResetConfirm and budgetCurrency
  currentBudgetUsage,  \* the prop of that name handed to EmployeeDetail
  now,                 \* the current date, in whole months
  detail               \* EmployeeDetail: its props' employee, state and memo

appVars == <<processedEmployees, uploadedFiles, totalBudget, app,
             currentBudgetUsage, now, detail>>

parseVars == <<file, expectedType, result, trace, input, output>>

vars == <<pc, file, expectedType, result, trace, input, output,
          processedEmployees, uploadedFiles, totalBudget, app,
          currentBudgetUsage, now, detail>>

NoError == [t |-> "null"]
ErrorText(message) == [t |-> "text", message |-> message]

\* the state App keeps besides the lists and the budget
AppState(currentView, error, isLoadingSession, showResetConfirm, budgetCurrency) ==
  [currentView |-> currentView, error |-> error,
   isLoadingSession |-> isLoadingSession,
   showResetConfirm |-> showResetConfirm, budgetCurrency |-> budgetCurrency]
\* the useState initial values
Constructed == AppState("upload", NoError, TRUE, FALSE, "USD")

\* App is not mounted in the runs of the parser alone
AppAbsent ==
  /\ processedEmployees = <<>>
  /\ uploadedFiles = <<>>
  /\ totalBudget = 0
  /\ app = Constructed
  /\ currentBudgetUsage = 0
  /\ now = 0
  /\ detail = [employee |-> 0]

---------------------------------------------------------------------------
(* JavaScript values *)

Str(s) == [t |-> "str", s |-> s]
Num(m, e) == [t |-> "num", m |-> m, e |-> e]
NaN == [t |-> "nan"]
Undefined == [t |-> "undefined"]
ObjectConstructor == [t |-> "fn"]
ObjectPrototype == [t |-> "object"]
Throw(msg) == [t |-> "throw", message |-> msg]
Ok(v) == [t |-> "ok", v |-> v]

IsThrow(v) == v.t = "throw"
TypeofString(v) == v.t = "str"
TypeofNumber(v) == v.t \in {"num", "nan"}

\* ToBoolean: undefined, "", 0 and NaN are falsy
Truthy(v) ==
  CASE v.t = "undefined" -> FALSE
    [] v.t = "str" -> Len(v.s) > 0
    [] v.t = "num" -> v.m # 0
    [] v.t = "nan" -> FALSE
    [] OTHER -> TRUE

Digits == {"0", "1", "2", "3", "4", "5", "6", "7", "8", "9"}

DigitVal(c) ==
  CASE c = "0" -> 0 [] c = "1" -> 1 [] c = "2" -> 2 [] c = "3" -> 3
    [] c = "4" -> 4 [] c = "5" -> 5 [] c = "6" -> 6 [] c = "7" -> 7
    [] c = "8" -> 8 [] c = "9" -> 9

UpperToLower ==
  (  "A" :> "a" @@ "B" :> "b" @@ "C" :> "c" @@ "D" :> "d" @@ "E" :> "e"
  @@ "F" :> "f" @@ "G" :> "g" @@ "H" :> "h" @@ "I" :> "i" @@ "J" :> "j"
  @@ "K" :> "k" @@ "L" :> "l" @@ "M" :> "m" @@ "N" :> "n" @@ "O" :> "o"
  @@ "P" :> "p" @@ "Q" :> "q" @@ "R" :> "r" @@ "S" :> "s" @@ "T" :> "t"
  @@ "U" :> "u" @@ "V" :> "v" @@ "W" :> "w" @@ "X" :> "x" @@ "Y" :> "y"
  @@ "Z" :> "z" )

\* String.prototype.toLowerCase on a character sequence
toLowerCase(s) ==
  [i \in 1..Len(s) |-> IF s[i] \in DOMAIN UpperToLower THEN UpperToLower[s[i]] ELSE s[i]]

RECURSIVE trimStart(_)
trimStart(s) ==
  IF s # <<>> /\ Head(s) = " " THEN trimStart(Tail(s)) ELSE s

RECURSIVE trimEnd(_)
trimEnd(s) ==
  IF s # <<>> /\ s[Len(s)] = " " THEN trimEnd(SubSeq(s, 1, Len(s) - 1)) ELSE s

\* String.prototype.trim
trim(s) == trimEnd(trimStart(s))

\* s.replace(/[set]/g, '')
RemoveAll(s, set) == SelectSeq(s, LAMBDA c : c \notin set)

\* s.replace(c, ''): the first occurrence only
RECURSIVE RemoveFirst(_, _)
RemoveFirst(s, c) ==
  IF s = <<>> THEN <<>>
  ELSE IF Head(s) = c THEN Tail(s)
  ELSE <<Head(s)>> \o RemoveFirst(Tail(s), c)

Includes(s, c) == \E i \in 1..Len(s) : s[i] = c

RECURSIVE Pow10(_)
Pow10(k) == IF k = 0 THEN 1 ELSE 10 * Pow10(k - 1)

\* the number m / 10^e in lowest form (no trailing zero in the fraction)
RECURSIVE Lowest(_, _)
Lowest(m, e) ==
  IF m = 0 THEN Num(0, 0)
  ELSE IF e > 0 /\ m % 10 = 0 THEN Lowest(m \div 10, e - 1)
  ELSE Num(m, e)

\* length of the run of decimal digits of s that starts at index i
RECURSIVE DigitRun(_, _)
DigitRun(s, i) ==
  IF i <= Len(s) /\ s[i] \in Digits THEN 1 + DigitRun(s, i + 1) ELSE 0

RECURSIVE DigitsValue(_)
DigitsValue(ds) ==
  IF ds = <<>> THEN 0
  ELSE 10 * DigitsValue(SubSeq(ds, 1, Len(ds) - 1)) + DigitVal(ds[Len(ds)])

SignLen(s) == IF s # <<>> /\ s[1] \in {"+", "-"} THEN 1 ELSE 0

HasDot(s, j) == j <= Len(s) /\ s[j] = "."

\* the digits after a dot at index j (0 when there is no dot there)
FractionLen(s, j) == IF HasDot(s, j) THEN DigitRun(s, j + 1) ELSE 0

\* the exponent part that starts at index iE: [len |-> its length, exp |-> its
\* value]; an e without digits is no exponent
ExponentOf(s, iE, eSign, nExp) ==
  IF nExp = 0 THEN [len |-> 0, exp |-> 0]
  ELSE [len |-> 1 + eSign + nExp,
        exp |-> IF eSign = 1 /\ s[iE + 1] = "-"
                THEN 0 - DigitsValue(SubSeq(s, iE + 1 + eSign, iE + eSign + nExp))
                ELSE DigitsValue(SubSeq(s, iE + 1 + eSign, iE + eSign + nExp))]

ScanExponentDigits(s, iE, eSign) ==
  ExponentOf(s, iE, eSign, DigitRun(s, iE + 1 + eSign))

ScanExponent(s, iE) ==
  IF iE <= Len(s) /\ s[iE] \in {"e", "E"}
  THEN ScanExponentDigits(s, iE,
         IF iE + 1 <= Len(s) /\ s[iE + 1] \in {"+", "-"} THEN 1 ELSE 0)
  ELSE [len |-> 0, exp |-> 0]

\* mant * 10^shift in lowest form, with its sign
Scaled(neg, mant, shift) ==
  IF shift >= 0
  THEN Lowest((IF neg THEN 0 - mant ELSE mant) * Pow10(shift), 0)
  ELSE Lowest(IF neg THEN 0 - mant ELSE mant, 0 - shift)

ScanValue(s, i0, nInt, nFrac, len, e) ==
  IF nInt + nFrac = 0 THEN [v |-> NaN, n |-> 0]
  ELSE [v |-> Scaled(s[1] = "-",
                     DigitsValue(SubSeq(s, i0, i0 + nInt - 1)) * Pow10(nFrac)
                     + DigitsValue(SubSeq(s, i0 + nInt + 1, i0 + nInt + nFrac)),
                     e.exp - nFrac),
        n |-> len + e.len]

ScanTail(s, i0, nInt, nFrac, iE) ==
  ScanValue(s, i0, nInt, nFrac, iE - 1, ScanExponent(s, iE))

ScanFraction(s, i0, nInt, nFrac) ==
  ScanTail(s, i0, nInt, nFrac,
           i0 + nInt + (IF HasDot(s, i0 + nInt) THEN 1 + nFrac ELSE 0))

ScanMantissa(s, i0, nInt) == ScanFraction(s, i0, nInt, FractionLen(s, i0 + nInt))

\* The longest prefix of s that is a decimal literal (sign, digits, fraction,
\* exponent), as parseFloat scans it: [v |-> its value or NaN, n |-> its length]
ScanDecimal(s) == ScanMantissa(s, SignLen(s) + 1, DigitRun(s, SignLen(s) + 1))

\* parseFloat(string): leading blanks skipped, trailing text ignored
parseFloat(str) == ScanDecimal(trimStart(str)).v

\* isNaN(number)
isNaN(v) == v.t = "nan"

\* the number a whole string s denotes, given the scan r of s
WholeLiteral(s, r) == IF r.v.t = "num" /\ r.n = Len(s) THEN r.v ELSE NaN

StringToNumber(s) == IF s = <<>> THEN Num(0, 0) ELSE WholeLiteral(s, ScanDecimal(s))

\* ToNumber, as the relational operators apply it to an operand: a string is
\* a number only when the whole trimmed string is a decimal literal ("" is 0)
ToNumber(v) ==
  CASE v.t \in {"num", "nan"} -> v
    [] v.t = "str" -> StringToNumber(trim(v.s))
    [] OTHER -> NaN

NumLess(n, c) == n.t = "num" /\ n.m < c * Pow10(n.e)
NumLessEq(n, c) == n.t = "num" /\ n.m <= c * Pow10(n.e)
NumGreater(n, c) == n.t = "num" /\ n.m > c * Pow10(n.e)

\* a < c, a <= c, a > c for an operand a and an integer literal c
\* (false when a converts to NaN)
Less(a, c) == NumLess(ToNumber(a), c)
LessEq(a, c) == NumLessEq(ToNumber(a), c)
Greater(a, c) == NumGreater(ToNumber(a), c)

\* number / 100
DivideBy100(n) == IF n.t = "num" THEN Lowest(n.m, n.e + 2) ELSE NaN

---------------------------------------------------------------------------
(* Objects: insertion-ordered sequences of <<key, value>> with distinct keys *)

ObjKeys(obj) == [i \in 1..Len(obj) |-> obj[i][1]]

ObjHas(obj, k) == \E i \in 1..Len(obj) : obj[i][1] = k

\* obj[k]: undefined for an absent own property
ObjGet(obj, k) ==
  IF ObjHas(obj, k)
  THEN obj[CHOOSE i \in 1..Len(obj) : obj[i][1] = k][2]
  ELSE Undefined

\* obj[k] = v: an existing key keeps its place, a new key goes last
ObjSet(obj, k, v) ==
  IF ObjHas(obj, k)
  THEN [i \in 1..Len(obj) |-> IF obj[i][1] = k THEN <<k, v>> ELSE obj[i]]
  ELSE Append(obj, <<k, v>>)

---------------------------------------------------------------------------
(* Headers *)

Header(pre, txt, cas, post) == [pre |-> pre, txt |-> txt, cas |-> cas, post |-> post]
Plain(txt) == Header(0, txt, "lower", 0)

HeaderToLowerCase(h) == [h EXCEPT !.cas = "lower"]
HeaderTrim(h) == [h EXCEPT !.pre = 0, !.post = 0]

\* the header is, character for character, the lower-case text txt
IsText(h, txt) == h.pre = 0 /\ h.post = 0 /\ h.cas = "lower" /\ h.txt = txt

---------------------------------------------------------------------------
(* Column mapping and value coercion (DataParser.mapColumns) *)

\* the object literal with the given 'key': 'field' entries
TableOf(entries) ==
  [k \in {e[1] : e \in entries} |-> (CHOOSE e \in entries : e[1] = k)[2]]

SalaryEntries ==
  { <<"employee_id", "employeeId">>,
    <<"employeeid", "employeeId">>,
    <<"emp_id", "employeeId">>,
    <<"id", "employeeId">>,
    <<"employee id", "employeeId">>,
    <<"employee number", "employeeId">>,
    <<"employee_number", "employeeId">>,
    <<"email", "email">>,
    <<"email_address", "email">>,
    <<"e-mail", "email">>,
    <<"work_email", "email">>,
    <<"name", "name">>,
    <<"full_name", "name">>,
    <<"employee_name", "name">>,
    <<"full name", "name">>,
    <<"employee full name", "name">>,
    <<"employee_full_name", "name">>,
    <<"first_name", "firstName">>,
    <<"firstname", "firstName">>,
    <<"first name", "firstName">>,
    <<"last_name", "lastName">>,
    <<"lastname", "lastName">>,
    <<"last name", "lastName">>,
    <<"country", "country">>,
    <<"location", "country">>,
    <<"currency", "currency">>,
    <<"curr", "currency">>,
    <<"country iso2", "country">>,
    <<"base_salary", "baseSalary">>,
    <<"basesalary", "baseSalary">>,
    <<"salary", "baseSalary">>,
    <<"annual_salary", "baseSalary">>,
    <<"base salary", "baseSalary">>,
    <<"annual salary", "baseSalary">>,
    <<"base pay all countries", "baseSalary">>,
    <<"total base pay", "baseSalary">>,
    <<"annual calculated base pay all countries", "baseSalary">>,
    <<"salary_grade_min", "salaryGradeMin">>,
    <<"grade_min", "salaryGradeMin">>,
    <<"min_salary", "salaryGradeMin">>,
    <<"min pay grade value", "salaryGradeMin">>,
    <<"salary_grade_mid", "salaryGradeMid">>,
    <<"grade_mid", "salaryGradeMid">>,
    <<"mid_salary", "salaryGradeMid">>,
    <<"mid pay grade value", "salaryGradeMid">>,
    <<"salary_grade_max", "salaryGradeMax">>,
    <<"grade_max", "salaryGradeMax">>,
    <<"max_salary", "salaryGradeMax">>,
    <<"max pay grade value", "salaryGradeMax">>,
    <<"comparatio", "comparatio">>,
    <<"time_in_role", "timeInRole">>,
    <<"months_in_role", "timeInRole">>,
    <<"tenure", "timeInRole">>,
    <<"time in role", "timeInRole">>,
    <<"latest hire date", "hireDate">>,
    <<"job entry start date", "roleStartDate">>,
    <<"hire_date", "hireDate">>,
    <<"start_date", "hireDate">>,
    <<"role_start_date", "roleStartDate">>,
    <<"current_role_start", "roleStartDate">>,
    <<"last_raise_date", "lastRaiseDate">>,
    <<"last raise date", "lastRaiseDate">>,
    <<"last salary change date", "lastRaiseDate">>,
    <<"department", "departmentCode">>,
    <<"department_code", "departmentCode">>,
    <<"department - cc based", "departmentCode">>,
    <<"job_title", "jobTitle">>,
    <<"title", "jobTitle">>,
    <<"business title", "jobTitle">>,
    <<"job profile", "jobTitle">>,
    <<"job function", "jobTitle">>,
    <<"job family", "jobTitle">>,
    <<"manager_id", "managerId">>,
    <<"manager id", "managerId">>,
    <<"manager employee number", "managerId">>,
    <<"manager_name", "managerName">>,
    <<"manager name", "managerName">>,
    <<"manager full name", "managerName">>,
    <<"manager_full_name", "managerName">>,
    <<"first line manager", "managerName">>,
    <<"direct manager", "managerName">>,
    <<"supervisor", "managerName">>,
    <<"grade band", "gradeLevel">>,
    <<"grade_band", "gradeLevel">>,
    <<"compensation grade profile", "gradeLevel">>,
    <<"salary range segment", "salaryRangeSegment">>,
    <<"salary_range_segment", "salaryRangeSegment">>,
    <<"range_segment", "salaryRangeSegment">>,
    <<"below range minimum?", "belowRangeMinimum">>,
    <<"below_range_minimum?", "belowRangeMinimum">>,
    <<"below range minimum", "belowRangeMinimum">>,
    <<"below_range_minimum", "belowRangeMinimum">>,
    <<"is_below_minimum", "belowRangeMinimum">> }

SALARY_COLUMN_MAPPINGS == TableOf(SalaryEntries)

PerformanceEntries ==
  { <<"employee_id", "employeeId">>,
    <<"employeeid", "employeeId">>,
    <<"emp_id", "employeeId">>,
    <<"id", "employeeId">>,
    <<"employee id", "employeeId">>,
    <<"employee number", "employeeId">>,
    <<"employee_number", "employeeId">>,
    <<"associate id", "employeeId">>,
    <<"associate_id", "employeeId">>,
    <<"email", "email">>,
    <<"name", "name">>,
    <<"employee_name", "name">>,
    <<"employee full name", "name">>,
    <<"employee_full_name", "name">>,
    <<"worker", "name">>,
    <<"performance_rating", "performanceRating">>,
    <<"rating", "performanceRating">>,
    <<"performance", "performanceRating">>,
    <<"perf_rating", "performanceRating">>,
    <<"performance rating", "performanceRating">>,
    <<"overall performance rating", "performanceRating">>,
    <<"overall_performance_rating", "performanceRating">>,
    <<"overall performance rating (current)", "performanceRating">>,
    <<"performance: what (current)", "performanceRating">>,
    <<"performance: how (current)", "performanceRating">>,
    <<"calibrated value: overall performance rating", "performanceRating">>,
    <<"calibrated value: performance: what", "performanceRating">>,
    <<"calibrated value: performance: how", "performanceRating">>,
    <<"pre-calibrated value: overall performance rating", "performanceRating">>,
    <<"calibrated value: identified as future talent?", "futuretalent">>,
    <<"calibrated value: movement readiness", "movementReadiness">>,
    <<"calibrated value: proposed talent actions", "proposedTalentActions">>,
    <<"calibrated value: future talent: growth agility", "businessImpactScore">>,
    <<"calibrated value: future talent: change agility", "businessImpactScore">>,
    <<"business_impact", "businessImpactScore">>,
    <<"business_impact_score", "businessImpactScore">>,
    <<"impact_score", "businessImpactScore">>,
    <<"business impact", "businessImpactScore">>,
    <<"retention_risk", "retentionRisk">>,
    <<"risk_score", "retentionRisk">>,
    <<"retention risk", "retentionRisk">>,
    <<"flight_risk", "retentionRisk">>,
    <<"identified as future talent?", "retentionRisk">>,
    <<"identified as future talent? (current)", "retentionRisk">> }

PERFORMANCE_COLUMN_MAPPINGS == TableOf(PerformanceEntries)

\* mappings[normalizedKey]: an own entry of the table, else what the object
\* literal inherits from Object.prototype under a lower-case name
\* (constructor, __proto__), else undefined
Lookup(mappings, normalizedKey) ==
  IF \E k \in DOMAIN mappings : IsText(normalizedKey, k)
  THEN [t |-> "field", name |-> mappings[normalizedKey.txt]]
  ELSE IF IsText(normalizedKey, "constructor") THEN ObjectConstructor
  ELSE IF IsText(normalizedKey, "__proto__") THEN ObjectPrototype
  ELSE Undefined

\* the property name mappedRow[mappedField] writes: String(mappedField)
PropertyKey(mappedField) ==
  IF mappedField.t = "field" THEN mappedField.name
  ELSE IF mappedField = ObjectConstructor THEN "function Object() { [native code] }"
  ELSE "[object Object]"

numericFields ==
  {"baseSalary", "salaryGradeMin", "salaryGradeMid", "salaryGradeMax",
   "timeInRole", "businessImpactScore", "retentionRisk"}

Quotes == {"\"", "'"}
CurrencySymbols == {"$", ",", "£", "€", "¥", "₹"}
DigitsDotsDashes == Digits \cup {".", "-"}

\* cleanValue without its last replace: a faulty variant, letters and blanks
\* stay in the text handed to parseFloat
cleanValueKeepingText(s) == trim(RemoveAll(RemoveAll(s, Quotes), CurrencySymbols))

\* value.replace(/["']/g, '').replace(/[$,...]/g, '').replace(/[^\d.-]/g, '').trim()
cleanValue(s) ==
  trim(SelectSeq(RemoveAll(RemoveAll(s, Quotes), CurrencySymbols),
                 LAMBDA c : c \in DigitsDotsDashes))

\* if (!isNaN(numValue)) value = numValue
NumberOr(numValue, value) == IF ~isNaN(numValue) THEN numValue ELSE value

\* the numericFields branch
CoerceNumeric(mappedField, value) ==
  IF mappedField.t = "field" /\ mappedField.name \in numericFields
  THEN NumberOr(parseFloat(cleanValue(value.s)), value)
  ELSE value

\* if (!isNaN(numValue)) value = numValue / 100
PercentOr(numValue, value) == IF ~isNaN(numValue) THEN DivideBy100(numValue) ELSE value

\* the performanceRating branch, on the trimmed text
TrimmedRating(trimmed) ==
  IF Includes(trimmed, "%")
  THEN PercentOr(parseFloat(trim(RemoveFirst(trimmed, "%"))), Str(trimmed))
  ELSE Str(trimmed)

CoercePerformanceRating(mappedField, value) ==
  IF mappedField.t = "field" /\ mappedField.name = "performanceRating"
  THEN TrimmedRating(trim(value.s))
  ELSE value

YesTexts == {<<"y", "e", "s">>, <<"y">>, <<"t", "r", "u", "e">>}
NoTexts == {<<"n", "o">>, <<"n">>, <<"f", "a", "l", "s", "e">>}

\* the yes / no comparison on lowerValue
YesNo(lowerValue, value) ==
  IF lowerValue \in YesTexts THEN Num(1, 0)
  ELSE IF lowerValue \in NoTexts THEN Num(0, 0)
  ELSE value

\* the retentionRisk branch: value.toLowerCase() is a TypeError when the
\* numericFields branch has already made value a number
CoerceRetentionRisk(mappedField, value) ==
  IF mappedField.t = "field" /\ mappedField.name = "retentionRisk"
  THEN IF ~TypeofString(value)
       THEN Throw(<<"value.toLowerCase is not a function">>)
       ELSE YesNo(trim(toLowerCase(value.s)), value)
  ELSE value

\* the value mapColumns stores for one cell, or the exception it raises
CoerceValue(mappedField, value) ==
  IF TypeofString(value) /\ value # Str(<<>>)
  THEN CoerceRetentionRisk(mappedField,
         CoercePerformanceRating(mappedField, CoerceNumeric(mappedField, value)))
  ELSE value

\* the forEach over Object.keys(row), from the i-th key on: Ok(mappedRow),
\* or the exception a cell raised
RECURSIVE MapKeysFrom(_, _, _, _)

\* a faulty variant: a field that already holds a non-empty value keeps it
StoreKeepingNonEmpty(row, mappings, i, mappedRow, mappedField, value) ==
  IF IsThrow(value) THEN value
  ELSE MapKeysFrom(row, mappings, i + 1,
                   IF Truthy(ObjGet(mappedRow, PropertyKey(mappedField)))
                   THEN mappedRow
                   ELSE ObjSet(mappedRow, PropertyKey(mappedField), value))

\* mappedRow[mappedField] = value, unless computing value raised
Store(row, mappings, i, mappedRow, mappedField, value) ==
  IF IsThrow(value) THEN value
  ELSE MapKeysFrom(row, mappings, i + 1,
                   ObjSet(mappedRow, PropertyKey(mappedField), value))

\* if (mappedField) { ... }
MapKey(row, mappings, i, mappedRow, mappedField) ==
  IF Truthy(mappedField)
  THEN Store(row, mappings, i, mappedRow, mappedField,
             CoerceValue(mappedField, row[i][2]))
  ELSE MapKeysFrom(row, mappings, i + 1, mappedRow)

MapKeysFrom(row, mappings, i, mappedRow) ==
  IF i > Len(row) THEN Ok(mappedRow)
  ELSE MapKey(row, mappings, i, mappedRow,
              Lookup(mappings, HeaderTrim(HeaderToLowerCase(row[i][1]))))

\* one row of data.map(...)
MapRow(row, mappings) == MapKeysFrom(row, mappings, 1, <<>>)

\* the rows of data.map(...), or the first exception raised
RowsOrThrow(rows) ==
  IF \E i \in 1..Len(rows) : IsThrow(rows[i])
  THEN rows[CHOOSE i \in 1..Len(rows) :
              IsThrow(rows[i]) /\ \A j \in 1..(i - 1) : ~IsThrow(rows[j])]
  ELSE Ok([i \in 1..Len(rows) |-> rows[i].v])

\* data.map(...): Ok(the mapped rows), or the first exception raised
mapColumns(data, mappings) ==
  RowsOrThrow([i \in 1..Len(data) |-> MapRow(data[i], mappings)])

---------------------------------------------------------------------------
(* Row validation *)

\* a faulty variant: a row with a warning is not valid either
ValidationResultStrict(errors, warnings, employeeId) ==
  [isValid |-> Len(errors) = 0 /\ Len(warnings) = 0, errors |-> errors,
   warnings |-> warnings, employeeId |-> employeeId]

ValidationResult(errors, warnings, employeeId) ==
  [isValid |-> Len(errors) = 0, errors |-> errors, warnings |-> warnings,
   employeeId |-> employeeId]

\* the pushes of one forEach body, in order: msgs[i] is pushed when conds[i]
RECURSIVE Pushed(_, _)
Pushed(conds, msgs) ==
  IF conds = <<>> THEN <<>>
  ELSE (IF Head(conds) THEN <<Head(msgs)>> ELSE <<>>) \o Pushed(Tail(conds), Tail(msgs))

\* row.employeeId || `Row ${index + 1}` (index is 0-based: i - 1)
EmployeeIdOrRow(row, i) ==
  IF Truthy(ObjGet(row, "employeeId")) THEN ObjGet(row, "employeeId")
  ELSE Str(<<"Row ", ToString(i)>>)

\* a faulty variant: the typeof check of baseSalary is left out
SalaryErrorsUntyped(row, employeeId, baseSalary) ==
  Pushed(
    << ~Truthy(employeeId),
       ~Truthy(ObjGet(row, "name")) /\ ~Truthy(ObjGet(row, "firstName"))
         /\ ~Truthy(ObjGet(row, "lastName")),
       ~Truthy(baseSalary) \/ LessEq(baseSalary, 0) >>,
    << "Employee ID is required",
       "Employee name is required",
       "Valid base salary is required" >>)

SalaryErrors(row, employeeId, baseSalary) ==
  Pushed(
    << ~Truthy(employeeId),
       ~Truthy(ObjGet(row, "name")) /\ ~Truthy(ObjGet(row, "firstName"))
         /\ ~Truthy(ObjGet(row, "lastName")),
       ~Truthy(baseSalary) \/ LessEq(baseSalary, 0),
       Truthy(baseSalary) /\ ~TypeofNumber(baseSalary) >>,
    << "Employee ID is required",
       "Employee name is required",
       "Valid base salary is required",
       "Base salary must be a number" >>)

SalaryWarnings(row, timeInRole) ==
  Pushed(
    << ~Truthy(ObjGet(row, "country")),
       ~Truthy(ObjGet(row, "currency")),
       Truthy(timeInRole) /\ (~TypeofNumber(timeInRole) \/ Less(timeInRole, 0)) >>,
    << "Country/location information is missing",
       "Currency information is missing",
       "Time in role should be a positive number (months)" >>)

ValidateSalaryRow(row, i) ==
  ValidationResult(
    SalaryErrors(row, ObjGet(row, "employeeId"), ObjGet(row, "baseSalary")),
    SalaryWarnings(row, ObjGet(row, "timeInRole")),
    EmployeeIdOrRow(row, i))

validateSalaryData(data) == [i \in 1..Len(data) |-> ValidateSalaryRow(data[i], i)]

\* typeof rating === 'number' && (rating < 0 || rating > 5)
RatingOutOfRange(performanceRating) ==
  TypeofNumber(performanceRating)
  /\ (Less(performanceRating, 0) \/ Greater(performanceRating, 5))

PerformanceWarnings(performanceRating, outOfRange, retentionRisk) ==
  Pushed(
    << performanceRating # Undefined /\ outOfRange,
       performanceRating # Undefined /\ ~outOfRange
         /\ TypeofString(performanceRating) /\ trim(performanceRating.s) = <<>>,
       Truthy(retentionRisk)
         /\ (~TypeofNumber(retentionRisk) \/ Less(retentionRisk, 0)
             \/ Greater(retentionRisk, 100)) >>,
    << "Numeric performance rating should be between 0 and 5",
       "Performance rating cannot be empty",
       "Retention risk should be between 0 and 100" >>)

ValidatePerformanceRow(row, i) ==
  ValidationResult(
    Pushed(<< ~Truthy(ObjGet(row, "employeeId")) >>, << "Employee ID is required" >>),
    PerformanceWarnings(ObjGet(row, "performanceRating"),
                        RatingOutOfRange(ObjGet(row, "performanceRating")),
                        ObjGet(row, "retentionRisk")),
    EmployeeIdOrRow(row, i))

validatePerformanceData(data) ==
  [i \in 1..Len(data) |-> ValidatePerformanceRow(data[i], i)]

---------------------------------------------------------------------------
(* Collaborators of parseFile that the repository keeps outside these files *)

FileTypes == {"salary", "performance", "unknown"}

\* ErrorHandler.validateFile(file): a list of {severity, message}, or an
\* exception
FileValidationOutcomes ==
  LET e == [severity |-> "ERROR", message |-> <<"File size exceeds the limit">>]
      w == [severity |-> "WARNING", message |-> <<"File is large">>]
  IN  {Ok(<<>>), Ok(<<w>>), Ok(<<e>>), Ok(<<w, e>>),
       Throw(<<"validateFile failed">>)}

\* ErrorHandler.validateDataStructure(rawData, fileName): hard failures make
\* the outcome invalid, warnings do not; the detected format is any file type
StructureOutcomes ==
  LET e == [message |-> <<"No recognizable headers">>]
      w == [message |-> <<"Optional columns are missing">>]
  IN  { Ok([isValid |-> errs = <<>>, errors |-> errs, warnings |-> warns,
            fileInfo |-> [detectedFormat |-> f]]) :
          errs \in {<<>>, <<e>>}, warns \in {<<>>, <<w>>}, f \in FileTypes }
      \cup {Throw(<<"validateDataStructure failed">>)}

---------------------------------------------------------------------------
(* Decoding *)

ExtensionToLowerCase(ext) ==
  CASE ext = "CSV" -> "csv" [] ext = "XLSX" -> "xlsx" [] ext = "XLS" -> "xls"
    [] ext = "DOCX" -> "docx" [] OTHER -> ext

\* the row objects a header row and the cell rows give: keys lower-cased and
\* trimmed, values trimmed
RowObjects(headers, cells) ==
  [r \in 1..Len(cells) |->
     [c \in 1..Len(headers) |->
        <<HeaderTrim(HeaderToLowerCase(headers[c])), Str(trim(cells[r][c]))>>]]

\* Papa.parse with header, transformHeader and transform: the rows with the
\* parser's error list, or the reader's failure
ParseCSVOutcomes(f) ==
  LET data == RowObjects(f.headers, f.cells)
  IN  { Ok([data |-> data, errors |-> <<>>]),
        Ok([data |-> data,
            errors |-> <<[message |-> <<"Too few fields">>],
                         [message |-> <<"Quoted field unterminated">>]>>]),
        Throw(<<"File could not be read">>) }

\* errors.map(e => `CSV parsing error: ${e.message}`).join('; ')
RECURSIVE JoinParseErrors(_)
JoinParseErrors(errors) ==
  IF errors = <<>> THEN <<>>
  ELSE <<"CSV parsing error: ">> \o Head(errors).message
       \o (IF Len(errors) > 1 THEN <<"; ">> ELSE <<>>)
       \o JoinParseErrors(Tail(errors))

\* first worksheet to row objects: rows whose cells are all blank are left
\* out; a sheet without data rows resolves empty or is rejected, and the
\* reader or the workbook parser may fail
ParseXLSXOutcomes(f) ==
  LET kept == SelectSeq(f.cells, LAMBDA row : \E c \in 1..Len(row) : trim(row[c]) # <<>>)
      objects == RowObjects(f.headers, kept)
  IN  (IF objects # <<>> THEN {Ok(objects)}
       ELSE {Ok(<<>>), Throw(<<"Worksheet contains only headers, no data rows">>)})
      \cup {Throw(<<"Failed to read file">>)}

---------------------------------------------------------------------------
(* parseFile *)

FileUploadResult(fileName, fileType, rowCount, validRows, errors, data) ==
  [fileName |-> fileName, fileType |-> fileType, rowCount |-> rowCount,
   validRows |-> validRows, errors |-> errors, data |-> data]

\* a return statement: the result and, for the record, what the run did
Return(res, stage, info) == [t |-> "return", result |-> res, stage |-> stage, info |-> info]

NoInfo ==
  [rawData |-> <<>>, mappedData |-> <<>>, validationResults |-> <<>>,
   structure |-> Undefined]

\* the header texts of the model that contain 'performance' or 'rating'
PerformanceOrRatingTexts ==
  { "calibrated value: overall performance rating",
    "calibrated value: performance: how",
    "calibrated value: performance: what",
    "overall performance rating",
    "overall performance rating (current)",
    "overall_performance_rating",
    "perf_rating",
    "performance",
    "performance rating",
    "performance: how (current)",
    "performance: what (current)",
    "performance_rating",
    "pre-calibrated value: overall performance rating",
    "rating" }

\* key.toLowerCase().includes('performance') || ...includes('rating')
IncludesPerformanceOrRating(key) == key.txt \in PerformanceOrRatingTexts

hasPerformanceColumns(data) ==
  Len(data) > 0 /\ \E c \in 1..Len(data[1]) : IncludesPerformanceOrRating(data[1][c][1])

\* the merge of the performance fields into the salary row of the same index
MergeField(salaryRow, performanceRow, field) ==
  IF Truthy(ObjGet(performanceRow, field))
  THEN ObjSet(salaryRow, field, ObjGet(performanceRow, field))
  ELSE salaryRow

MergePerformance(salaryData, performanceData) ==
  [i \in 1..Len(salaryData) |->
     IF i <= Len(performanceData)
     THEN MergeField(MergeField(MergeField(salaryData[i], performanceData[i],
                                           "performanceRating"),
                                performanceData[i], "businessImpactScore"),
                     performanceData[i], "retentionRisk")
     ELSE salaryData[i]]

Chosen(mappedData, validationResults, finalType) ==
  [t |-> "ok", mappedData |-> mappedData, validationResults |-> validationResults,
   finalType |-> finalType]

MappingError(e, finalType) == [t |-> "throw", message |-> e.message, finalType |-> finalType]

IsValid(v) == v.isValid

\* validationResults.filter(v => v.isValid).length
CountValid(validationResults) == Len(SelectSeq(validationResults, IsValid))

\* validationResults = validatePerformanceData(performanceData)
PerformanceMapped(performanceData) ==
  IF IsThrow(performanceData) THEN MappingError(performanceData, "performance")
  ELSE Chosen(performanceData.v, validatePerformanceData(performanceData.v),
              "performance")

\* the performance block (finalType === 'performance')
PerformanceBlock(data) ==
  PerformanceMapped(mapColumns(data, PERFORMANCE_COLUMN_MAPPINGS))

\* performanceValidityRate > salaryValidityRate: the performance schema, whose
\* block then maps and validates once more; otherwise the salary schema
ComparePerformance(data, salaryData, salaryValidation, performanceValidation) ==
  IF CountValid(performanceValidation) * Len(salaryValidation)
       > CountValid(salaryValidation) * Len(performanceValidation)
  THEN PerformanceBlock(data)
  ELSE Chosen(salaryData, salaryValidation, "salary")

\* the second mapping of the unknown branch
TryPerformance(data, finalType, salaryData, salaryValidation, performanceData) ==
  IF IsThrow(performanceData) THEN MappingError(performanceData, finalType)
  ELSE ComparePerformance(data, salaryData, salaryValidation,
                          validatePerformanceData(performanceData.v))

\* salaryValidityRate > 0.1 || expectedType === 'salary', else the unknown branch
ChooseSchema(data, expected, finalType, salaryData, salaryValidation) ==
  IF 10 * CountValid(salaryValidation) > Len(salaryValidation)
     \/ expected = "salary"
  THEN Chosen(salaryData, salaryValidation, "salary")
  ELSE IF expected = "unknown"
  THEN TryPerformance(data, finalType, salaryData, salaryValidation,
                      mapColumns(data, PERFORMANCE_COLUMN_MAPPINGS))
  ELSE Chosen(<<>>, <<>>, finalType)

SalaryValidated(data, expected, finalType, salaryData) ==
  ChooseSchema(data, expected, finalType, salaryData, validateSalaryData(salaryData))

\* the combined file: the performance mapping merged into the salary rows
Merged(data, expected, finalType, salaryData, performanceData) ==
  IF IsThrow(performanceData) THEN MappingError(performanceData, finalType)
  ELSE SalaryValidated(data, expected, finalType,
                       MergePerformance(salaryData, performanceData.v))

SalaryMapped(data, expected, finalType, salaryData) ==
  IF IsThrow(salaryData) THEN MappingError(salaryData, finalType)
  ELSE IF hasPerformanceColumns(data)
  THEN Merged(data, expected, finalType, salaryData.v,
              mapColumns(data, PERFORMANCE_COLUMN_MAPPINGS))
  ELSE SalaryValidated(data, expected, finalType, salaryData.v)

\* the salary block (finalType === 'salary' || finalType === 'unknown')
SalaryBlock(data, expected, finalType) ==
  SalaryMapped(data, expected, finalType, mapColumns(data, SALARY_COLUMN_MAPPINGS))

\* a faulty variant: the detected format is used whatever the caller expects
DetectedFinalType(expected, structure) == structure.fileInfo.detectedFormat

\* let finalType = expectedType, or the detected format for unknown
InitialFinalType(expected, structure) ==
  IF expected = "unknown" THEN structure.fileInfo.detectedFormat ELSE expected

\* Step 4 from the initial finalType on
MapAs(data, expected, finalType) ==
  IF finalType \in {"salary", "unknown"} THEN SalaryBlock(data, expected, finalType)
  ELSE PerformanceBlock(data)

\* Step 4: map columns and validate
MapAndValidate(data, expected, structure) ==
  MapAs(data, expected, InitialFinalType(expected, structure))

\* a faulty variant: the header row is not counted
RowMessageOneBased(i, text) == <<"Row ", ToString(i), ": ", text>>

\* `Row ${index + 2}: ${text}` for the 0-based index i - 1
RowMessage(i, text) == <<"Row ", ToString(i + 1), ": ", text>>

WarningMessage(w) == <<"Warning: ">> \o w

\* the forEach over validationResults: texts[i] are the messages row i adds
RECURSIVE CollectFrom(_, _)
CollectFrom(texts, i) ==
  IF i > Len(texts) THEN <<>>
  ELSE [k \in 1..Len(texts[i]) |-> RowMessage(i, texts[i][k])]
       \o CollectFrom(texts, i + 1)

\* allErrors
CollectErrors(validationResults) ==
  CollectFrom([i \in 1..Len(validationResults) |->
                 IF ~validationResults[i].isValid THEN validationResults[i].errors
                 ELSE <<>>], 1)

\* allWarnings: the row warnings, then the structure warnings
CollectWarnings(validationResults, structure) ==
  CollectFrom([i \in 1..Len(validationResults) |-> validationResults[i].warnings], 1)
  \o [k \in 1..Len(structure.warnings) |->
        <<"Data structure: ">> \o structure.warnings[k].message]

\* a faulty variant: the warnings are appended as they are
WithWarningsUnprefixed(allErrors, allWarnings) == allErrors \o allWarnings

\* [...allErrors, ...allWarnings.map(w => `Warning: ${w}`)]
WithWarnings(allErrors, allWarnings) ==
  allErrors \o [k \in 1..Len(allWarnings) |-> WarningMessage(allWarnings[k])]

\* finalErrors
FinalErrors(validationResults, structure) ==
  WithWarnings(CollectErrors(validationResults),
               CollectWarnings(validationResults, structure))

\* a faulty variant: no row is filtered out
FilterNothing(mappedData, validationResults, i) == mappedData

\* mappedData.filter((_, index) => validationResults[index].isValid)
RECURSIVE FilterValid(_, _, _)
FilterValid(mappedData, validationResults, i) ==
  IF i > Len(mappedData) THEN <<>>
  ELSE (IF validationResults[i].isValid THEN <<mappedData[i]>> ELSE <<>>)
       \o FilterValid(mappedData, validationResults, i + 1)

\* Step 5: the normal completion
Completed(fileName, data, structure, chosen) ==
  Return(FileUploadResult(fileName, chosen.finalType, Len(data),
                          CountValid(chosen.validationResults),
                          FinalErrors(chosen.validationResults, structure),
                          FilterValid(chosen.mappedData, chosen.validationResults, 1)),
         "completed",
         [rawData |-> data, mappedData |-> chosen.mappedData,
          validationResults |-> chosen.validationResults, structure |-> structure])

\* a faulty variant: the message of the exception is returned as it is
DecodeFailedUnprefixed(fileName, e) ==
  Return(FileUploadResult(fileName, "unknown", 0, 0, << e.message >>, <<>>),
         "decodeFailed", NoInfo)

\* the catch of the decoding try
DecodeFailed(fileName, e) ==
  Return(FileUploadResult(fileName, "unknown", 0, 0,
                          << <<"Failed to parse file: ">> \o e.message >>, <<>>),
         "decodeFailed", NoInfo)

\* parseFile up to its await: Steps 1 and the extension switch of Step 2
BeforeDecode(f, validation) ==
  IF IsThrow(validation) THEN validation
  ELSE LET fileValidationErrors == validation.v
           errorMessages ==
             [k \in 1..Len(SelectSeq(fileValidationErrors, LAMBDA e : e.severity = "ERROR")) |->
                SelectSeq(fileValidationErrors, LAMBDA e : e.severity = "ERROR")[k].message]
           fileExtension == ExtensionToLowerCase(f.name.ext)
       IN  IF \E k \in 1..Len(fileValidationErrors) :
                 fileValidationErrors[k].severity = "ERROR"
           THEN Return(FileUploadResult(f.name, "unknown", 0, 0, errorMessages, <<>>),
                       "fileRejected", NoInfo)
           ELSE IF fileExtension \in {"csv", "xlsx", "xls"} THEN [t |-> "await"]
           ELSE DecodeFailed(f.name,
                  Throw(<<"Unsupported file type: ", fileExtension,
                          ". Please use CSV, XLSX, or XLS files.">>))

\* the awaited decoder's outcome as the try sees it: rawData or an exception
Decoded(f, outcome) ==
  IF IsThrow(outcome) THEN outcome
  ELSE IF ExtensionToLowerCase(f.name.ext) = "csv"
  THEN IF Len(outcome.v.errors) > 0 THEN Throw(JoinParseErrors(outcome.v.errors))
       ELSE Ok(outcome.v.data)
  ELSE outcome

\* the catch of the mapping try
MappingFailed(fileName, data, e) ==
  Return(FileUploadResult(fileName, e.finalType, Len(data), 0,
                          << <<"Column mapping failed: ">> \o e.message >>, <<>>),
         "mappingFailed", [NoInfo EXCEPT !.rawData = data])

\* Step 5, or the catch of the mapping try
Mapped(f, data, structure, chosen) ==
  IF chosen.t = "throw" THEN MappingFailed(f.name, data, chosen)
  ELSE Completed(f.name, data, structure, chosen)

\* a faulty variant: the structural result is ignored and the rows are mapped
StructuredAnyway(f, expected, data, structure) ==
  Mapped(f, data, structure, MapAndValidate(data, expected, structure))

\* Steps 3 to 5 on a structural validation that returned
Structured(f, expected, data, structure) ==
  IF ~structure.isValid
  THEN Return(FileUploadResult(f.name, structure.fileInfo.detectedFormat,
                Len(data), 0,
                [k \in 1..Len(structure.errors) |-> structure.errors[k].message]
                \o [k \in 1..Len(structure.warnings) |->
                      WarningMessage(structure.warnings[k].message)],
                <<>>),
              "structureInvalid",
              [NoInfo EXCEPT !.rawData = data, !.structure = structure])
  ELSE Mapped(f, data, structure, MapAndValidate(data, expected, structure))

\* Steps 2 to 5 on what the decoding try produced
AfterDecoding(f, expected, decoded, structureOutcome) ==
  IF IsThrow(decoded) THEN DecodeFailed(f.name, decoded)
  ELSE IF Len(decoded.v) = 0
  THEN Return(FileUploadResult(f.name, "unknown", 0, 0,
                << <<"File is empty or contains no valid data rows">> >>, <<>>),
              "empty", NoInfo)
  ELSE IF IsThrow(structureOutcome) THEN structureOutcome
  ELSE Structured(f, expected, decoded.v, structureOutcome.v)

\* parseFile from the decoder's outcome to its return: Steps 2 to 5
AfterDecode(f, expected, outcome, structureOutcome) ==
  AfterDecoding(f, expected, Decoded(f, outcome), structureOutcome)

\* a faulty variant: parseFile without its outermost try / catch
Uncaught(fileName, r) == r

\* the outermost catch: an exception of the body becomes the critical result
OuterCatch(fileName, r) ==
  IF IsThrow(r)
  THEN Return(FileUploadResult(fileName, "unknown", 0, 0,
                << <<"Critical parsing error: ">> \o r.message,
                   <<"Please check your file format and try again. Supported formats: CSV, XLSX, XLS">>,
                   <<"Ensure your file contains the required columns: employeeId, name, and relevant data fields">> >>,
                <<>>),
              "critical", NoInfo)
  ELSE r

---------------------------------------------------------------------------
(* Inputs of the parseFile runs *)

MaxRows == 2

E100 == <<"E", "1", "0", "0">>
E2 == <<"E", "2">>
Jane == <<"J", "a", "n", "e">>
US == <<"U", "S">>
USD == <<"U", "S", "D">>

SalaryLayout ==
  [headers |-> << Header(0, "employee number", "title", 0),
                  Header(0, "employee full name", "title", 0),
                  Header(1, "base pay all countries", "upper", 1),
                  Plain("country"), Plain("currency"), Plain("time in role") >>,
   rows |-> { <<E100, Jane, <<"$", "8", "2", ",", "5", "0", "0", ".", "0", "0">>,
                US, USD, <<"1", "2">> >>,
              <<E100, Jane, <<>>, US, USD, <<"1", "2">> >>,
              <<E2, Jane, <<"9", "5", "0">>, <<>>, <<>>, <<"-", "3">> >>,
              << <<>>, <<>>, <<"n", "/", "a">>, <<>>, <<>>, <<"x">> >>,
              <<E2, Jane, <<"-", "5">>, US, <<>>, <<>> >> }]

PerformanceLayout ==
  [headers |-> << Header(0, "associate id", "title", 0),
                  Plain("overall performance rating"), Plain("retention_risk") >>,
   rows |-> { <<E100, <<"4">>, <<"Y", "e", "s">> >>,
              <<E2, <<"T", "o", "p">>, <<"4", "5">> >>,
              << <<>>, <<"8", "7", "%">>, <<"n", "o">> >>,
              <<E2, <<"9">>, <<"h", "i", "g", "h">> >> }]

CombinedLayout ==
  [headers |-> << Plain("employee id"), Plain("name"), Plain("salary"),
                  Plain("performance rating"), Plain("business impact") >>,
   rows |-> { <<E100, Jane, <<"1", "0", "0">>, <<"5">>, <<"3">> >>,
              <<E2, Jane, <<"1", "0", "0">>, <<>>, <<"0">> >>,
              << <<>>, Jane, <<>>, <<"T", "o", "p">>, <<>> >> }]

RiskLayout ==
  [headers |-> << Plain("id"), Plain("worker"), Plain("flight_risk"),
                  Plain("constructor") >>,
   rows |-> { <<E100, Jane, <<"n", "o">>, <<"x">> >>,
              <<E2, Jane, <<"7">>, <<"x">> >>,
              << <<>>, Jane, <<"y">>, <<>> >> }]

Layouts == {SalaryLayout, PerformanceLayout, CombinedLayout, RiskLayout}

RECURSIVE SeqsUpTo(_, _)
SeqsUpTo(S, n) ==
  IF n = 0 THEN {<<>>}
  ELSE LET shorter == SeqsUpTo(S, n - 1)
       IN  shorter \cup {Append(q, x) : q \in shorter, x \in S}

FileName(base, ext) == [base |-> base, ext |-> ext]

FilesOf(l, base, exts, n) ==
  { [name |-> FileName(base, ext), headers |-> l.headers, cells |-> cells] :
      ext \in exts, cells \in SeqsUpTo(l.rows, n) }

Files ==
  UNION { FilesOf(l, "data", {"csv", "xlsx"}, MaxRows) : l \in Layouts }
  \cup FilesOf([headers |-> <<>>, rows |-> {}], "report", {"docx", "DOCX", "pdf"}, 0)
  \cup FilesOf(RiskLayout, "old", {"XLS", "CSV"}, 1)

NoResult == [t |-> "none"]
Nothing == [t |-> "nothing"]
NoTrace == [stage |-> "none", info |-> NoInfo]

---------------------------------------------------------------------------
(* The parseFile invocation *)

Init ==
  /\ AppAbsent
  /\ pc = "called"
  /\ file \in Files
  /\ expectedType \in FileTypes
  /\ result = NoResult
  /\ trace = NoTrace
  /\ input = Nothing
  /\ output = Nothing

\* the promise settles: resolved with the result, or rejected with the
\* exception that escaped
Settle(r) ==
  LET s == OuterCatch(file.name, r)
  IN  IF IsThrow(s)
      THEN /\ pc' = "rejected"
           /\ result' = NoResult
           /\ trace' = [stage |-> "escaped", info |-> NoInfo]
      ELSE /\ pc' = "resolved"
           /\ result' = s.result
           /\ trace' = [stage |-> s.stage, info |-> s.info]

\* parseFile is called and runs to its await, or to an early return
ParseFileCall ==
  /\ pc = "called"
  /\ \E validation \in FileValidationOutcomes :
       LET r == BeforeDecode(file, validation)
       IN  IF r.t = "await"
           THEN pc' = "decoding" /\ UNCHANGED <<result, trace>>
           ELSE Settle(r)
  /\ UNCHANGED <<file, expectedType, input, output, appVars>>

DecoderOutcomes(f) ==
  IF ExtensionToLowerCase(f.name.ext) = "csv" THEN ParseCSVOutcomes(f)
  ELSE ParseXLSXOutcomes(f)

\* the decoder finishes and parseFile runs to its return
ParseFileResume ==
  /\ pc = "decoding"
  /\ \E outcome \in DecoderOutcomes(file), structureOutcome \in StructureOutcomes :
       Settle(AfterDecode(file, expectedType, outcome, structureOutcome))
  /\ UNCHANGED <<file, expectedType, input, output, appVars>>

Next == ParseFileCall \/ ParseFileResume

Spec == Init /\ [][Next]_vars

---------------------------------------------------------------------------
(* Claims about parseFile, over Spec *)

FailureStages ==
  {"fileRejected", "decodeFailed", "empty", "structureInvalid", "mappingFailed",
   "critical"}

IsFileUploadResult(r) ==
  /\ DOMAIN r = {"fileName", "fileType", "rowCount", "validRows", "errors", "data"}
  /\ r.fileType \in FileTypes
  /\ r.rowCount \in Nat
  /\ r.validRows \in Nat

\* C1: parseFile never lets an exception reach its caller: whatever stage
\* fails, the promise resolves to a FileUploadResult, and every failure
\* result has validRows = 0, data = [] and at least one error message.
C1_NeverPropagates ==
  /\ pc # "rejected"
  /\ pc = "resolved" => IsFileUploadResult(result)
  /\ (pc = "resolved" /\ trace.stage \in FailureStages) =>
       /\ result.validRows = 0
       /\ result.data = <<>>
       /\ Len(result.errors) > 0

\* an exception of a collaborator was caught at the outermost boundary
C1_Witness ==
  /\ pc = "resolved"
  /\ trace.stage = "critical"
  /\ result.errors[1][1] = "Critical parsing error: "

\* C2: on every return path the result satisfies validRows <= rowCount and
\* data.length = validRows.
C2_CountsAgree ==
  pc = "resolved" =>
    /\ result.validRows <= result.rowCount
    /\ Len(result.data) = result.validRows

\* a completed run that kept some rows and dropped others
C2_Witness ==
  /\ pc = "resolved"
  /\ trace.stage = "completed"
  /\ result.validRows >= 1
  /\ result.validRows < result.rowCount

\* C3: coercion never throws, so parseFile never returns a 'Column mapping
\* failed' zero-row result because of what a cell holds.
C3_NoMappingFailure ==
  pc = "resolved" =>
    /\ trace.stage # "mappingFailed"
    /\ ~(Len(result.errors) = 1 /\ result.errors[1][1] = "Column mapping failed: ")

\* the indices of the mapped rows whose validation produced no error
ErrorFree(validationResults) ==
  {i \in 1..Len(validationResults) : validationResults[i].errors = <<>>}

\* the k-th smallest element of a set of numbers
Kth(S, k) == CHOOSE i \in S : Cardinality({j \in S : j < i}) = k - 1

\* C4: when a run reaches row validation, data is exactly the subsequence, in
\* source order, of the mapped rows whose validation (by the schema of the
\* result) produced no error: rows with an error are left out without
\* aborting the file, rows with warnings only stay in.
C4_DataIsErrorFreeRows ==
  (pc = "resolved" /\ trace.stage = "completed") =>
    LET rows == trace.info.mappedData
        checked == IF result.fileType = "salary" THEN validateSalaryData(rows)
                   ELSE validatePerformanceData(rows)
        keep == ErrorFree(checked)
    IN  /\ Len(rows) = result.rowCount
        /\ Len(result.data) = Cardinality(keep)
        /\ \A k \in 1..Len(result.data) : result.data[k] = rows[Kth(keep, k)]

\* two rows: the first has an error and is left out, the second has only
\* warnings and is kept
C4_Witness ==
  /\ pc = "resolved"
  /\ trace.stage = "completed"
  /\ result.rowCount = 2
  /\ trace.info.validationResults[1].errors # <<>>
  /\ trace.info.validationResults[2].errors = <<>>
  /\ trace.info.validationResults[2].warnings # <<>>
  /\ result.data = <<trace.info.mappedData[2]>>

IsRowError(m) == Len(m) = 4 /\ m[1] = "Row " /\ m[3] = ": "
IsWarning(m) == Len(m) >= 2 /\ m[1] = "Warning: "

\* the row number a "Row N: message" entry names
RowNumberOf(m, rowCount) == CHOOSE n \in 1..(rowCount + 2) : ToString(n) = m[2]

RECURSIVE SumOf(_, _)
SumOf(f, n) == IF n = 0 THEN 0 ELSE f[n] + SumOf(f, n - 1)

\* C5: in the errors of a run that reached row validation, the hard row
\* errors come first, in row order, each of the form "Row N: message"; every
\* warning (of a row or of the structure) comes after all of them and starts
\* with "Warning: "; there is no entry of another form.
C5_ErrorsThenWarnings ==
  (pc = "resolved" /\ trace.stage = "completed") =>
    LET e == result.errors
        v == trace.info.validationResults
        hard == {i \in 1..Len(e) : IsRowError(e[i])}
        rowWarnings == SumOf([i \in 1..Len(v) |-> Len(v[i].warnings)], Len(v))
    IN  /\ \A i \in 1..Len(e) : IsRowError(e[i]) \/ IsWarning(e[i])
        /\ \A i \in hard, j \in 1..Len(e) : j < i => j \in hard
        /\ \A i \in hard, j \in hard :
             i < j => RowNumberOf(e[i], Len(v)) <= RowNumberOf(e[j], Len(v))
        /\ Cardinality(hard) = SumOf([i \in 1..Len(v) |-> Len(v[i].errors)], Len(v))
        /\ Len(e) - Cardinality(hard)
             = rowWarnings + Len(trace.info.structure.warnings)

\* errors of two rows, then a row warning and a structure warning
C5_Witness ==
  /\ pc = "resolved"
  /\ trace.stage = "completed"
  /\ Len(result.errors) >= 4
  /\ IsRowError(result.errors[1])
  /\ IsRowError(result.errors[2])
  /\ result.errors[1][2] # result.errors[2][2]
  /\ \E i \in 1..Len(result.errors) :
       IsWarning(result.errors[i]) /\ result.errors[i][2] = "Row "
  /\ \E i \in 1..Len(result.errors) :
       IsWarning(result.errors[i]) /\ result.errors[i][2] = "Data structure: "

\* C6: a message about the row at 0-based position p of the decoded rows
\* names row p + 2; a single salary row without baseSalary gives validRows = 0
\* and the error "Row 2: Valid base salary is required".
C6_RowNumbers ==
  (pc = "resolved" /\ trace.stage = "completed") =>
    LET v == trace.info.validationResults
    IN  /\ \A p \in 0..(Len(v) - 1) :
             /\ \A k \in 1..Len(v[p + 1].errors) :
                  \E i \in 1..Len(result.errors) :
                    result.errors[i]
                      = <<"Row ", ToString(p + 2), ": ", v[p + 1].errors[k]>>
             /\ \A k \in 1..Len(v[p + 1].warnings) :
                  \E i \in 1..Len(result.errors) :
                    result.errors[i]
                      = <<"Warning: ", "Row ", ToString(p + 2), ": ",
                          v[p + 1].warnings[k]>>
        /\ \A i \in 1..Len(result.errors) :
             IsRowError(result.errors[i]) =>
               \E p \in 0..(Len(v) - 1) : result.errors[i][2] = ToString(p + 2)
        /\ (result.fileType = "salary" /\ result.rowCount = 1
            /\ ~Truthy(ObjGet(trace.info.mappedData[1], "baseSalary"))) =>
             /\ result.validRows = 0
             /\ \E i \in 1..Len(result.errors) :
                  result.errors[i]
                    = <<"Row ", "2", ": ", "Valid base salary is required">>

\* the single salary row without a base salary
C6_Witness ==
  /\ pc = "resolved"
  /\ trace.stage = "completed"
  /\ result.fileType = "salary"
  /\ result.rowCount = 1
  /\ ObjGet(trace.info.mappedData[1], "baseSalary") = Str(<<>>)
  /\ result.validRows = 0
  /\ result.errors = << <<"Row ", "2", ": ", "Valid base salary is required">> >>

---------------------------------------------------------------------------
(* mapColumns on its own: one row of one cell under one of the two tables *)

MaxLen == 3
MaxPad == 1

MappingsOf(table) ==
  IF table = "salary" THEN SALARY_COLUMN_MAPPINGS ELSE PERFORMANCE_COLUMN_MAPPINGS

\* header texts: every key of the two tables, and texts that are in neither
UnmappedTexts == {"notes", "department code", "constructor", "__proto__"}

HeaderTexts ==
  DOMAIN SALARY_COLUMN_MAPPINGS \cup DOMAIN PERFORMANCE_COLUMN_MAPPINGS
  \cup UnmappedTexts

HeaderSpellings ==
  { Header(pre, txt, cas, post) :
      pre \in 0..MaxPad, txt \in HeaderTexts, cas \in {"lower", "upper", "title"},
      post \in 0..MaxPad }

\* cell texts: every text of up to MaxLen of these characters, and examples
CellAlphabet == {"0", "7", ".", "-", "$", ",", "y", " "}

CellExamples ==
  { <<"$", "8", "2", ",", "5", "0", "0", ".", "0", "0">>,
    <<"£", "1", "2", "0", "'", "0", "0", "0">>,
    <<"4", "5">>, <<"7">>, <<"h", "i", "g", "h">>, <<"n", "/", "a">>,
    <<"Y", "e", "s">>, <<"y", "e", "s">>, <<" ", "Y", " ">>, <<"T", "R", "U", "E">>,
    <<"t", "r", "u", "e">>, <<"N", "o">>, <<"n">>, <<"F", "a", "l", "s", "e">>,
    <<"8", "7", "%">>, <<"1", "e", "2", "%">>, <<"T", "o", "p">>,
    <<"1", "8", " ", "m", "o", "n", "t", "h", "s">> }

CellValues ==
  { Str(s) : s \in SeqsUpTo(CellAlphabet, MaxLen) \cup CellExamples }
  \cup { Num(45, 0), Num(825, 1), Undefined }

\* one column of each coerced field, and one of an uncoerced field
CoercedColumns ==
  { <<"salary", "base_salary">>, <<"salary", "grade_min">>,
    <<"salary", "grade_mid">>, <<"salary", "grade_max">>,
    <<"salary", "time in role">>, <<"salary", "employee_id">>,
    <<"performance", "business_impact">>, <<"performance", "retention_risk">>,
    <<"performance", "flight_risk">>, <<"performance", "rating">> }

MapCall(purpose, table, header, value) ==
  [purpose |-> purpose, table |-> table, row |-> << <<header, value>> >>]

MapCalls ==
  { MapCall("header", table, h, v) :
      table \in {"salary", "performance"}, h \in HeaderSpellings,
      v \in {Str(<<"x">>), Str(<<>>)} }
  \cup { MapCall("value", c[1], Plain(c[2]), v) : c \in CoercedColumns, v \in CellValues }

InitMap ==
  /\ AppAbsent
  /\ pc = "mapping"
  /\ input \in MapCalls
  /\ output = Nothing
  /\ file = Nothing
  /\ expectedType = "unknown"
  /\ result = NoResult
  /\ trace = NoTrace

\* mapColumns([row], mappings) returns, or throws
MapColumnsRun ==
  /\ pc = "mapping"
  /\ output' = mapColumns(<<input.row>>, MappingsOf(input.table))
  /\ pc' = "mapped"
  /\ UNCHANGED <<file, expectedType, result, trace, input, appVars>>

NextMap == MapColumnsRun

SpecMap == InitMap /\ [][NextMap]_vars

---------------------------------------------------------------------------
(* validateSalaryData on its own: one mapped row *)

Absent == [t |-> "absent"]

\* a row object with the properties whose value is not Absent
RowOf(pairs) == SelectSeq(pairs, LAMBDA kv : kv[2] # Absent)

SalaryRows ==
  { RowOf(<< <<"employeeId", employeeId>>, <<"name", name>>,
             <<"firstName", firstName>>, <<"lastName", lastName>>,
             <<"baseSalary", baseSalary>>, <<"country", country>>,
             <<"currency", currency>>, <<"timeInRole", timeInRole>> >>) :
      employeeId \in {Absent, Str(<<>>), Str(E100)},
      name \in {Absent, Str(Jane)},
      firstName \in {Absent, Str(<<"J">>)},
      lastName \in {Absent, Str(<<>>), Str(<<"D", "o", "e">>)},
      baseSalary \in {Absent, Str(<<>>), Str(<<"n", "/", "a">>), Str(<<"-">>),
                      Num(0, 0), Num(-5, 0), Num(1, 2), Num(82500, 0)},
      country \in {Absent, Str(<<>>), Str(US)},
      currency \in {Absent, Str(USD)},
      timeInRole \in {Absent, Str(<<>>), Str(<<"x">>), Num(0, 0), Num(-3, 0),
                      Num(18, 0)} }

InitValidate ==
  /\ AppAbsent
  /\ pc = "validating"
  /\ input \in {[row |-> r] : r \in SalaryRows}
  /\ output = Nothing
  /\ file = Nothing
  /\ expectedType = "unknown"
  /\ result = NoResult
  /\ trace = NoTrace

\* validateSalaryData([row]) returns its one ValidationResult
ValidateSalaryRun ==
  /\ pc = "validating"
  /\ output' = validateSalaryData(<<input.row>>)[1]
  /\ pc' = "validated"
  /\ UNCHANGED <<file, expectedType, result, trace, input, appVars>>

NextValidate == ValidateSalaryRun

SpecValidate == InitValidate /\ [][NextValidate]_vars

---------------------------------------------------------------------------
(* Claims about validateSalaryData, over SpecValidate *)

\* a property that is there and is not the empty string
Present(row, k) == ObjHas(row, k) /\ ObjGet(row, k) # Str(<<>>) /\ ObjGet(row, k) # Num(0, 0)

Has(msgs, m) == \E i \in 1..Len(msgs) : msgs[i] = m

\* C7: validateSalaryData marks a row valid exactly when employeeId is
\* present, at least one of name, firstName, lastName is present, and
\* baseSalary is a number greater than 0; a missing country, a missing
\* currency, and a non-numeric or negative timeInRole each add a warning and
\* have no part in isValid.
C7_SalaryValidity ==
  pc = "validated" =>
    LET baseSalary == ObjGet(input.row, "baseSalary")
        timeInRole == ObjGet(input.row, "timeInRole")
    IN  /\ output.isValid <=>
             /\ Present(input.row, "employeeId")
             /\ Present(input.row, "name") \/ Present(input.row, "firstName")
                  \/ Present(input.row, "lastName")
             /\ baseSalary.t = "num" /\ baseSalary.m > 0
        /\ Has(output.warnings, "Country/location information is missing")
             <=> ~Present(input.row, "country")
        /\ Has(output.warnings, "Currency information is missing")
             <=> ~Present(input.row, "currency")
        /\ Has(output.warnings, "Time in role should be a positive number (months)")
             <=> \/ timeInRole.t = "str" /\ timeInRole.s # <<>>
                 \/ timeInRole.t = "num" /\ timeInRole.m < 0
        /\ Len(output.warnings) <= 3

\* a valid row that carries all three warnings
C7_Witness ==
  /\ pc = "validated"
  /\ output.isValid
  /\ Len(output.warnings) = 3
  /\ ~ObjHas(input.row, "name")
  /\ ObjGet(input.row, "baseSalary") = Num(1, 2)

---------------------------------------------------------------------------
(* Claims about mapColumns, over SpecMap *)

TheHeader == input.row[1][1]
TheValue == input.row[1][2]

\* the field the table of the call gives the column
FieldOf(call) == MappingsOf(call.table)[call.row[1][1].txt]

IsColumnOf(fields) ==
  /\ pc = "mapped"
  /\ input.purpose = "value"
  /\ FieldOf(input) \in fields

\* the characters of s that are digits, dots or minus signs
Kept(s) == SelectSeq(s, LAMBDA c : c \in Digits \cup {".", "-"})

\* p is a decimal literal: an optional minus sign, then digits with at most
\* one dot among them and at least one digit
IsDecimalLiteral(p) ==
  LET body == IF p # <<>> /\ Head(p) = "-" THEN Tail(p) ELSE p
  IN  /\ \A i \in 1..Len(body) : body[i] \in Digits \cup {"."}
      /\ Cardinality({i \in 1..Len(body) : body[i] = "."}) <= 1
      /\ \E i \in 1..Len(body) : body[i] \in Digits

RECURSIVE NaturalOf(_)
NaturalOf(ds) ==
  IF ds = <<>> THEN 0 ELSE 10 * NaturalOf(SubSeq(ds, 1, Len(ds) - 1)) + DigitVal(ds[Len(ds)])

\* m / 10^e without trailing zeros in the fraction
RECURSIVE Reduced(_, _)
Reduced(m, e) ==
  IF e > 0 /\ m % 10 = 0 THEN Reduced(m \div 10, e - 1) ELSE Num(m, e)

\* the number a decimal literal denotes
LiteralValue(p) ==
  LET negative == Head(p) = "-"
      body == IF negative THEN Tail(p) ELSE p
      digits == SelectSeq(body, LAMBDA c : c \in Digits)
      dots == {i \in 1..Len(body) : body[i] = "."}
      places == IF dots = {} THEN 0 ELSE Len(body) - (CHOOSE i \in dots : TRUE)
      magnitude == Reduced(NaturalOf(digits), places)
  IN  IF negative THEN Num(0 - magnitude.m, magnitude.e) ELSE magnitude

\* the number at the start of k, or nothing: its longest prefix that is a
\* decimal literal
LeadingNumber(k) ==
  LET lengths == {n \in 1..Len(k) : IsDecimalLiteral(SubSeq(k, 1, n))}
  IN  IF lengths = {} THEN NaN
      ELSE LiteralValue(SubSeq(k, 1, CHOOSE n \in lengths : \A l \in lengths : l <= n))

\* the number the text s holds once everything but digits, dots and minus
\* signs is deleted, or s itself when nothing parseable is left
ParsedOrOriginal(v) ==
  IF v.t = "str" /\ v.s # <<>> /\ LeadingNumber(Kept(v.s)) # NaN
  THEN LeadingNumber(Kept(v.s))
  ELSE v

NumericColumns ==
  {"baseSalary", "salaryGradeMin", "salaryGradeMid", "salaryGradeMax",
   "timeInRole", "businessImpactScore"}

\* C8: a retentionRisk cell that reads yes, y or true (any case, trimmed)
\* becomes 1, one that reads no, n or false becomes 0, and every other value
\* passes through: a numeric risk score is stored as a number, any other text
\* as it is.
C8_RetentionRiskValues ==
  IsColumnOf({"retentionRisk"}) =>
    output =
      Ok(<< << <<"retentionRisk",
               IF TheValue.t # "str" THEN TheValue
               ELSE IF trim(toLowerCase(TheValue.s))
                         \in {<<"y", "e", "s">>, <<"y">>, <<"t", "r", "u", "e">>}
               THEN Num(1, 0)
               ELSE IF trim(toLowerCase(TheValue.s))
                         \in {<<"n", "o">>, <<"n">>, <<"f", "a", "l", "s", "e">>}
               THEN Num(0, 0)
               ELSE ParsedOrOriginal(TheValue)>> >> >>)

\* C9: for baseSalary, salaryGradeMin/Mid/Max, timeInRole and
\* businessImpactScore, mapColumns stores the number parsed from the cell's
\* text after deleting every character that is not a digit, a dot or a minus
\* sign ("$82,500.00" gives 82500), the original text when nothing parseable
\* is left, and a non-string value or an empty string unchanged.
C9_NumericCoercion ==
  IsColumnOf(NumericColumns) =>
    /\ output = Ok(<< << <<FieldOf(input), ParsedOrOriginal(TheValue)>> >> >>)
    /\ TheValue = Str(<<"$", "8", "2", ",", "5", "0", "0", ".", "0", "0">>) =>
         output.v[1][1][2] = Num(82500, 0)
    /\ TheValue.t = "str" /\ Kept(TheValue.s) = <<>> => output.v[1][1][2] = TheValue

\* the salary example of the specification is stored as the number 82500
C9_Witness ==
  /\ IsColumnOf({"baseSalary"})
  /\ TheValue = Str(<<"$", "8", "2", ",", "5", "0", "0", ".", "0", "0">>)
  /\ output = Ok(<< << <<"baseSalary", Num(82500, 0)>> >> >>)

\* C10: what mapColumns does with a column depends only on its header
\* lower-cased and trimmed: a header whose lower-cased, trimmed text is a key
\* of the table ("Employee ID", "employee_id", " EMPLOYEE ID ") gives the
\* field of that key, in both tables, and any other header is dropped from
\* the mapped row without error.
C10_HeaderNormalisation ==
  (pc = "mapped" /\ input.purpose = "header") =>
    /\ output = mapColumns(<< << <<Plain(TheHeader.txt), TheValue>> >> >>,
                           MappingsOf(input.table))
    /\ TheHeader.txt \in DOMAIN MappingsOf(input.table) =>
         output = Ok(<< << <<FieldOf(input), TheValue>> >> >>)
    /\ TheHeader.txt \in {"employee id", "employee_id"} => FieldOf(input) = "employeeId"
    /\ TheHeader.txt \notin DOMAIN MappingsOf(input.table) => output = Ok(<< <<>> >>)

---------------------------------------------------------------------------
(* Claims about the choice of schema, over Spec *)

\* the run got past structural validation and produced rows
ReachedCompletion == pc = "resolved" /\ trace.stage = "completed"

\* both tables map the decoded rows of the run without an exception
BothTablesMap ==
  /\ ~IsThrow(mapColumns(trace.info.rawData, SALARY_COLUMN_MAPPINGS))
  /\ ~IsThrow(mapColumns(trace.info.rawData, PERFORMANCE_COLUMN_MAPPINGS))

SalaryValidationOf(raw) ==
  validateSalaryData(mapColumns(raw, SALARY_COLUMN_MAPPINGS).v)

PerformanceValidationOf(raw) ==
  validatePerformanceData(mapColumns(raw, PERFORMANCE_COLUMN_MAPPINGS).v)

\* the performance schema has the strictly higher fraction of valid rows
\* (both validations have one entry per decoded row)
PerformanceRateHigher(raw) ==
  CountValid(PerformanceValidationOf(raw)) > CountValid(SalaryValidationOf(raw))

\* C11: with expectedType unknown, a run that reaches mapping takes its
\* result from the schema with the strictly higher fraction of rows passing
\* row validation, and from the salary schema when the fractions are equal.
C11_HigherRateWins ==
  (ReachedCompletion /\ expectedType = "unknown" /\ BothTablesMap) =>
    IF PerformanceRateHigher(trace.info.rawData)
    THEN /\ result.fileType = "performance"
         /\ result.validRows = CountValid(PerformanceValidationOf(trace.info.rawData))
    ELSE /\ result.fileType = "salary"
         /\ result.validRows = CountValid(SalaryValidationOf(trace.info.rawData))

MergedFields == {"performanceRating", "businessImpactScore", "retentionRisk"}

KeySet(row) == {row[i][1] : i \in 1..Len(row)}

\* mapped is the salary mapping of the decoded rows, row by row, apart from
\* the performance fields a combined file merges into it
IsSalaryMapping(mapped, raw) ==
  LET salaryData == mapColumns(raw, SALARY_COLUMN_MAPPINGS).v
  IN  /\ Len(mapped) = Len(salaryData)
      /\ \A i \in 1..Len(mapped) :
           /\ KeySet(salaryData[i]) \subseteq KeySet(mapped[i])
           /\ KeySet(mapped[i]) \subseteq KeySet(salaryData[i]) \cup MergedFields
           /\ \A k \in KeySet(salaryData[i]) :
                ObjGet(mapped[i], k) = ObjGet(salaryData[i], k)
      /\ ~hasPerformanceColumns(raw) => mapped = salaryData

C13_MergeByIndex ==
  (ReachedCompletion /\ result.fileType = "salary"
   /\ hasPerformanceColumns(trace.info.rawData) /\ BothTablesMap) =>
    LET performanceData ==
          mapColumns(trace.info.rawData, PERFORMANCE_COLUMN_MAPPINGS).v
    IN  \A i \in 1..Len(performanceData) :
          \A field \in MergedFields :
            ObjGet(performanceData[i], field) \notin {Undefined, Str(<<>>)} =>
              ObjGet(trace.info.mappedData[i], field)
                = ObjGet(performanceData[i], field)

---------------------------------------------------------------------------
(* Claims about the failure results of parseFile, over Spec *)

\* the file's extension is none of csv, xlsx, xls, and pre-validation let the
\* file through
UnsupportedFileParsed ==
  /\ pc = "resolved"
  /\ ExtensionToLowerCase(file.name.ext) \notin {"csv", "xlsx", "xls"}
  /\ trace.stage \notin {"fileRejected", "critical"}

UnsupportedMessage ==
  <<"Unsupported file type: ", ExtensionToLowerCase(file.name.ext),
    ". Please use CSV, XLSX, or XLS files.">>

\* C14 as stated: parseFile on a file whose extension is not csv, xlsx or xls
\* returns data = [] and errors equal to exactly the one string "Unsupported
\* file type: <extension>. Please use CSV, XLSX, or XLS files.".
C14_UnsupportedAsStated ==
  UnsupportedFileParsed =>
    /\ result.data = <<>>
    /\ result.errors = << UnsupportedMessage >>

\* C14: parseFile on a file whose extension is not csv, xlsx or xls, when
\* pre-validation does not reject the file, returns data = [], validRows = 0
\* and exactly one error, "Failed to parse file: Unsupported file type:
\* <extension>. Please use CSV, XLSX, or XLS files.", with the extension in
\* lower case.
C14_UnsupportedExtension ==
  UnsupportedFileParsed =>
    /\ trace.stage = "decodeFailed"
    /\ result.data = <<>>
    /\ result.validRows = 0
    /\ result.errors = << <<"Failed to parse file: ">> \o UnsupportedMessage >>

\* report.DOCX is answered with the message about docx
C14_Witness ==
  /\ pc = "resolved"
  /\ file.name = FileName("report", "DOCX")
  /\ result.data = <<>>
  /\ result.errors
       = << <<"Failed to parse file: ", "Unsupported file type: ", "docx",
              ". Please use CSV, XLSX, or XLS files.">> >>

\* the decoded rows reached structural validation and it reported them invalid
StructureReportedInvalid ==
  /\ pc = "resolved"
  /\ trace.info.structure # Undefined
  /\ ~trace.info.structure.isValid

\* C15: when structural validation reports the decoded rows invalid,
\* parseFile maps and validates nothing and returns validRows = 0, data = []
\* and errors made of the structural error messages followed by the
\* structural warnings, each prefixed "Warning: ".
C15_StructuralFailure ==
  StructureReportedInvalid =>
    LET structure == trace.info.structure
    IN  /\ trace.stage = "structureInvalid"
        /\ trace.info.mappedData = <<>>
        /\ trace.info.validationResults = <<>>
        /\ result.validRows = 0
        /\ result.data = <<>>
        /\ Len(result.errors) = Len(structure.errors) + Len(structure.warnings)
        /\ \A k \in 1..Len(structure.errors) :
             result.errors[k] = structure.errors[k].message
        /\ \A k \in 1..Len(structure.warnings) :
             result.errors[Len(structure.errors) + k]
               = <<"Warning: ">> \o structure.warnings[k].message

\* a structural error and a structural warning on rows that would map
C15_Witness ==
  /\ StructureReportedInvalid
  /\ result.rowCount = 2
  /\ result.errors = << <<"No recognizable headers">>,
                        <<"Warning: ", "Optional columns are missing">> >>
  /\ BothTablesMap
  /\ SalaryValidationOf(trace.info.rawData)[1].isValid

---------------------------------------------------------------------------
(* Two invocations of parseFile that interleave at their awaits.  Here pc   *)
(* and result hold one entry per invocation and input holds the two calls:  *)
(* the file, expectedType, and what the validators and the decoder answer   *)
(* for that file.                                                           *)

Invocations == {1, 2}

FilesOfTwo ==
  { [name |-> FileName("data", "csv"), headers |-> SalaryLayout.headers,
     cells |-> << <<E100, Jane, <<"9", "5", "0">>, US, USD, <<"1", "2">> >>,
                  <<E2, Jane, <<>>, US, <<>>, <<>> >> >>],
    [name |-> FileName("data", "xlsx"), headers |-> PerformanceLayout.headers,
     cells |-> << <<E2, <<"T", "o", "p">>, <<"4", "5">> >> >>],
    [name |-> FileName("report", "docx"), headers |-> <<>>, cells |-> <<>>] }

CallsOf(f) ==
  { [file |-> f, expectedType |-> t, validation |-> v, outcome |-> o,
     structure |-> s] :
      t \in {"salary", "unknown"},
      v \in {Ok(<<>>), Throw(<<"validateFile failed">>)},
      o \in {d \in DecoderOutcomes(f) : IsThrow(d) \/ ~IsThrow(Decoded(f, d))},
      s \in {x \in StructureOutcomes :
               IsThrow(x) \/ (Len(x.v.warnings) = 1
                              /\ x.v.fileInfo.detectedFormat # "unknown")} }

CallsTwo == UNION { CallsOf(f) : f \in FilesOfTwo }

InitTwo ==
  /\ AppAbsent
  /\ pc = [i \in Invocations |-> "called"]
  /\ input \in [Invocations -> CallsTwo]
  /\ result = [i \in Invocations |-> NoResult]
  /\ file = Nothing
  /\ expectedType = "unknown"
  /\ trace = NoTrace
  /\ output = Nothing

\* a faulty variant: the result is kept in a field all invocations share
ReturnedToAll(i, s, results) == [j \in DOMAIN results |-> s.result]

\* return {...}: the result goes to the caller of invocation i
ReturnedTo(i, s, results) == [results EXCEPT ![i] = s.result]

\* the promise of invocation i settles
SettleTwo(i, r) ==
  LET s == OuterCatch(input[i].file.name, r)
  IN  IF IsThrow(s)
      THEN pc' = [pc EXCEPT ![i] = "rejected"] /\ UNCHANGED result
      ELSE pc' = [pc EXCEPT ![i] = "resolved"] /\ result' = ReturnedTo(i, s, result)

\* invocation i runs from its call to its await, or to an early return
CallTwo(i) ==
  /\ pc[i] = "called"
  /\ LET r == BeforeDecode(input[i].file, input[i].validation)
     IN  IF r.t = "await"
         THEN pc' = [pc EXCEPT ![i] = "decoding"] /\ UNCHANGED result
         ELSE SettleTwo(i, r)
  /\ UNCHANGED <<file, expectedType, trace, input, output, appVars>>

\* the decoder of invocation i finishes and i runs to its return
ResumeTwo(i) ==
  /\ pc[i] = "decoding"
  /\ SettleTwo(i, AfterDecode(input[i].file, input[i].expectedType,
                              input[i].outcome, input[i].structure))
  /\ UNCHANGED <<file, expectedType, trace, input, output, appVars>>

\* the caller drops invocation i at its await: it never resumes
AbandonTwo(i) ==
  /\ pc[i] = "decoding"
  /\ pc' = [pc EXCEPT ![i] = "abandoned"]
  /\ UNCHANGED <<file, expectedType, result, trace, input, output, appVars>>

NextTwo == \E i \in Invocations : CallTwo(i) \/ ResumeTwo(i) \/ AbandonTwo(i)

SpecTwo == InitTwo /\ [][NextTwo]_vars

---------------------------------------------------------------------------
(* Claims about concurrent invocations, over SpecTwo *)

\* what parseFile returns for a call that runs alone, start to end
ResultAlone(call) ==
  LET r == BeforeDecode(call.file, call.validation)
  IN  OuterCatch(call.file.name,
                 IF r.t = "await"
                 THEN AfterDecode(call.file, call.expectedType, call.outcome,
                                  call.structure)
                 ELSE r).result

---------------------------------------------------------------------------
(* App and EmployeeDetail: the employee list, the budget, the raise editor *)
(*                                                                         *)
(* An employee is a function from its field names to their values; a field *)
(* the object lacks is outside its domain.  Amounts are whole numbers, a   *)
(* date is [t |-> "date", month |-> m], months counted as `now` is.        *)

Null == [t |-> "null"]
DateOf(m) == [t |-> "date", month |-> m]

\* String.prototype.includes
StringIncludes(s, t) ==
  \E i \in 0..(Len(s) - Len(t)) : SubSeq(s, i + 1, i + Len(t)) = t

\* Math.round of a / b, for a >= 0 and b > 0
RoundedRatio(a, b) == (2 * a + b) \div (2 * b)

Min2(a, b) == IF a <= b THEN a ELSE b
Max2(a, b) == IF a >= b THEN a ELSE b

\* extractFieldValue: the first of the named fields the employee has, else
\* the default (no field of the model holds null or '')
RECURSIVE extractFieldValue(_, _, _)
extractFieldValue(employee, fieldNames, defaultValue) ==
  IF fieldNames = <<>> THEN defaultValue
  ELSE IF Head(fieldNames) \in DOMAIN employee
       THEN employee[Head(fieldNames)]
       ELSE extractFieldValue(employee, Tail(fieldNames), defaultValue)

BaseSalaryUSDNames ==
  <<"baseSalaryUSD", "base_salary_usd", "salary_usd", "annual_salary_usd",
    "Base Salary USD", "Annual Salary USD", "USD Salary">>
BaseSalaryNames ==
  <<"baseSalary", "base_salary", "salary", "annual_salary", "Base Salary",
    "Annual Salary", "Base Pay All Countries", "Total Base Pay",
    "Annual Calculated Base Pay All Countries">>
SalaryGradeMinNames ==
  <<"salaryGradeMin", "salary_grade_min", "grade_min", "min_salary",
    "Min Pay Grade Value", "Salary Grade Min">>
SalaryGradeMidNames ==
  <<"salaryGradeMid", "salary_grade_mid", "grade_mid", "mid_salary",
    "Mid Pay Grade Value", "Salary Grade Mid">>
SalaryGradeMaxNames ==
  <<"salaryGradeMax", "salary_grade_max", "grade_max", "max_salary",
    "Max Pay Grade Value", "Salary Grade Max">>
ComparatioNames == <<"comparatio", "Comparatio", "comp_ratio", "comparatio_percent">>
PerformanceRatingNames ==
  <<"performanceRating", "performance_rating", "rating", "performance",
    "Performance Rating", "Overall Performance Rating",
    "Performance: What (Current)", "Performance: How (Current)",
    "Overall Performance Rating (Current)">>
TimeInRoleNames ==
  <<"timeInRole", "time_in_role", "months_in_role", "tenure", "Time in Role",
    "Months in Role">>
HireDateNames ==
  <<"Latest Hire Date", "hireDate", "hire_date", "start_date", "Hire Date",
    "Start Date">>
RoleStartDateNames ==
  <<"Job Entry Start Date", "roleStartDate", "role_start_date",
    "current_role_start", "Role Start Date", "Current Role Start">>
LastRaiseDateNames ==
  <<"lastRaiseDate", "last_raise_date", "last_increase_date",
    "Last Raise Date", "Last Salary Change Date">>

baseSalaryUSD(employee) == extractFieldValue(employee, BaseSalaryUSDNames, 0)
baseSalary(employee) ==
  extractFieldValue(employee, BaseSalaryNames, baseSalaryUSD(employee))
\* the defaults are baseSalaryUSD * 0.8, * 1.1 and * 1.4, in whole units
salaryGradeMin(employee) ==
  extractFieldValue(employee, SalaryGradeMinNames, (baseSalaryUSD(employee) * 8) \div 10)
salaryGradeMid(employee) ==
  extractFieldValue(employee, SalaryGradeMidNames, (baseSalaryUSD(employee) * 11) \div 10)
salaryGradeMax(employee) ==
  extractFieldValue(employee, SalaryGradeMaxNames, (baseSalaryUSD(employee) * 14) \div 10)
ComparatioDefault(salary, mid) ==
  IF mid > 0 THEN RoundedRatio(salary * 100, mid) ELSE 0
comparatio(employee) ==
  extractFieldValue(employee, ComparatioNames,
                    ComparatioDefault(baseSalary(employee), salaryGradeMid(employee)))

\* { ...employee, baseSalary, baseSalaryUSD, ... }
enhancedEmployee(employee) ==
  [baseSalary |-> baseSalary(employee),
   baseSalaryUSD |-> baseSalaryUSD(employee),
   salaryGradeMin |-> salaryGradeMin(employee),
   salaryGradeMid |-> salaryGradeMid(employee),
   salaryGradeMax |-> salaryGradeMax(employee),
   comparatio |-> comparatio(employee),
   performanceRating |-> extractFieldValue(employee, PerformanceRatingNames, Null),
   timeInRole |-> extractFieldValue(employee, TimeInRoleNames, 0)] @@ employee

\* EmployeeCalculations.calculateTenure: whole months from each date that is
\* present to the current date, zero for one that is absent
MonthsSince(d, date) == IF d.t = "date" THEN date - d.month ELSE 0
calculateTenure(hireDate, roleStartDate, lastRaiseDate, date) ==
  [totalTenureMonths |-> MonthsSince(hireDate, date),
   timeInRoleMonths |-> MonthsSince(roleStartDate, date),
   lastRaiseMonthsAgo |-> MonthsSince(lastRaiseDate, date),
   yearsOfService |-> MonthsSince(hireDate, date) \div 12]

\* EmployeeCalculations.analyzeSalary: roomForGrowth is floored at 0
analyzeSalary(e) ==
  [currentSalary |-> e.baseSalary,
   salaryGradeMin |-> e.salaryGradeMin,
   salaryGradeMid |-> e.salaryGradeMid,
   salaryGradeMax |-> e.salaryGradeMax,
   comparatio |-> e.comparatio,
   roomForGrowth |-> Max2(e.salaryGradeMax - e.baseSalary, 0)]

\* EmployeeCalculations.calculateRetentionRisk: capped components, summed;
\* the comparatio component grows as the comparatio falls below 100 and the
\* tenure component is charged to an employee of under six months
calculateRetentionRisk(e, tenureInfo) ==
  [comparatioRisk |-> Min2(40, Max2(0, 100 - e.comparatio)),
   tenureRisk |-> IF tenureInfo.totalTenureMonths < 6 THEN 20 ELSE 0,
   totalRisk |-> Min2(40, Max2(0, 100 - e.comparatio))
                 + (IF tenureInfo.totalTenureMonths < 6 THEN 20 ELSE 0)]

\* the amount before the caps: it grows with totalRisk and with the distance
\* below the grade mid, and is 0 above the mid at low risk
WantedRaise(salaryAnalysis, retentionRisk) ==
  IF salaryAnalysis.currentSalary >= salaryAnalysis.salaryGradeMid
     /\ retentionRisk.totalRisk < 30
  THEN 0
  ELSE (salaryAnalysis.currentSalary * retentionRisk.totalRisk) \div 200
       + Max2(0, salaryAnalysis.salaryGradeMid - salaryAnalysis.currentSalary) \div 10

RecommendationOf(amount, currentSalary) ==
  [recommendedAmount |-> amount,
   recommendedPercent |-> IF currentSalary > 0
                          THEN (amount * 100) \div currentSalary ELSE 0]

\* EmployeeCalculations.calculateOptimalRaise: the wanted amount, capped at
\* maxPercent of currentSalary and at the available budget
calculateOptimalRaise(e, tenureInfo, retentionRisk, salaryAnalysis, budgetConstraints) ==
  RecommendationOf(
    Min2(Min2(WantedRaise(salaryAnalysis, retentionRisk),
              (salaryAnalysis.currentSalary * budgetConstraints.maxPercent) \div 100),
         budgetConstraints.available),
    salaryAnalysis.currentSalary)

India == <<"i", "n", "d", "i", "a">>

\* employee.location?.toLowerCase().includes('india') ? 10 : 12
MaxPercentOf(employee) ==
  IF "location" \in DOMAIN employee
     /\ StringIncludes(toLowerCase(employee.location.s), India)
  THEN 10 ELSE 12

\* a faulty variant: the whole budget counts as available
budgetConstraintsOfTotal(employee, budget, usage) ==
  [available |-> budget, maxPercent |-> MaxPercentOf(employee)]

\* const budgetConstraints = { available, maxPercent }
budgetConstraints(employee, budget, usage) ==
  [available |-> budget - usage, maxPercent |-> MaxPercentOf(employee)]

AnalysisFrom(e, tenureInfo, constraints) ==
  [tenureInfo |-> tenureInfo,
   salaryAnalysis |-> analyzeSalary(e),
   retentionRisk |-> calculateRetentionRisk(e, tenureInfo),
   raiseRecommendation |->
     calculateOptimalRaise(e, tenureInfo, calculateRetentionRisk(e, tenureInfo),
                           analyzeSalary(e), constraints)]

\* the function useMemo holds: the four analyses of the employee under the
\* budget, on the date of the computation
analysis(employee, budget, usage, date) ==
  AnalysisFrom(enhancedEmployee(employee),
               calculateTenure(extractFieldValue(employee, HireDateNames, Null),
                               extractFieldValue(employee, RoleStartDateNames, Null),
                               extractFieldValue(employee, LastRaiseDateNames, Null),
                               date),
               budgetConstraints(employee, budget, usage))

---------------------------------------------------------------------------
(* The employee list after ingestion, and the user's actions on it *)

MaxMonth == 2

Pune == Str(<<"P", "u", "n", "e", ",", " ", "I", "n", "d", "i", "a">>)
Austin == Str(<<"A", "u", "s", "t", "i", "n">>)

\* paid in USD only, hired five months before month 0
EmployeeInIndia ==
  [employeeId |-> "E1", name |-> "Asha Rao", location |-> Pune,
   baseSalaryUSD |-> 100, hireDate |-> DateOf(-5), proposedRaise |-> 0]
\* below the grade mid, no dates
EmployeeBelowMid ==
  [employeeId |-> "E2", name |-> "Jane Doe", location |-> Austin,
   baseSalary |-> 200, baseSalaryUSD |-> 200, salaryGradeMid |-> 300,
   proposedRaise |-> 0]
\* above the grade mid, no location, no proposedRaise yet
EmployeeAboveMid ==
  [employeeId |-> "E3", name |-> "Li Wei", baseSalary |-> 200,
   baseSalaryUSD |-> 200, salaryGradeMid |-> 150, hireDate |-> DateOf(-40)]

EmployeeLists ==
  { <<EmployeeInIndia, EmployeeBelowMid>>, <<EmployeeBelowMid, EmployeeAboveMid>> }

Budgets == {0, 30}
Usages == {0, 22}
TypedAmounts == {0, 7, 40}

\* employee.proposedRaise || 0
ProposedRaiseOrZero(employee) ==
  IF "proposedRaise" \in DOMAIN employee THEN employee.proposedRaise ELSE 0

\* employee.employeeId || employee.id
EmployeeKey(employee) ==
  IF employee.employeeId # "" THEN employee.employeeId ELSE employee.id

Closed == [employee |-> 0]

\* the first render of EmployeeDetail for the employee at index i
Mounted(i, employees, budget, usage, date) ==
  [employee |-> i,
   isEditingRaise |-> FALSE,
   tempProposedRaise |-> ProposedRaiseOrZero(employees[i]),
   aiRecommendationApplied |-> FALSE,
   analysis |-> analysis(employees[i], budget, usage, date)]

\* a faulty variant: the memo is never computed again
useMemoOnce(d, changed, employees, budget, usage, date) == d

\* a later render: useMemo computes the analysis again when one of employee,
\* totalBudget and currentBudgetUsage is not the value of the render before
useMemo(d, changed, employees, budget, usage, date) ==
  IF d.employee # 0 /\ changed
  THEN [d EXCEPT !.analysis = analysis(employees[d.employee], budget, usage, date)]
  ELSE d

\* a faulty variant: the update is spread into every employee
handleEmployeeUpdateAll(prev, employeeId, updates) ==
  [k \in DOMAIN prev |-> updates @@ prev[k]]

\* App.handleEmployeeUpdate: prev.map(emp => emp.employeeId === employeeId
\* ? { ...emp, ...updates } : emp); the backup it schedules is outside the
\* state kept here
handleEmployeeUpdate(prev, employeeId, updates) ==
  [k \in DOMAIN prev |->
     IF prev[k].employeeId = employeeId THEN updates @@ prev[k] ELSE prev[k]]

\* the employee prop is a new object after the update
Replaced(prev, i, employeeId) == i # 0 /\ prev[i].employeeId = employeeId

InitDetail ==
  /\ pc = "dashboard"
  /\ processedEmployees \in EmployeeLists
  /\ uploadedFiles = <<>>
  /\ totalBudget \in Budgets
  /\ app = AppState("dashboard", NoError, FALSE, FALSE, "USD")
  /\ currentBudgetUsage \in Usages
  /\ now = 0
  /\ detail = Closed
  /\ file = Nothing
  /\ expectedType = "unknown"
  /\ result = NoResult
  /\ trace = NoTrace
  /\ input = Nothing
  /\ output = Nothing

\* the dashboard renders EmployeeDetail for an employee of the list: a
\* first render, or a render of the mounted component with another employee
SelectEmployee(i) ==
  /\ detail.employee # i
  /\ detail' = IF detail.employee = 0
               THEN Mounted(i, processedEmployees, totalBudget,
                            currentBudgetUsage, now)
               ELSE useMemo([detail EXCEPT !.employee = i], TRUE,
                            processedEmployees, totalBudget,
                            currentBudgetUsage, now)
  /\ UNCHANGED <<pc, app, processedEmployees, uploadedFiles, totalBudget,
                 currentBudgetUsage, now, parseVars>>

\* onClose: the dashboard takes EmployeeDetail away
CloseDetail ==
  /\ detail.employee # 0
  /\ detail' = Closed
  /\ UNCHANGED <<pc, app, processedEmployees, uploadedFiles, totalBudget,
                 currentBudgetUsage, now, parseVars>>

handleProposedRaiseEdit ==
  /\ detail.employee # 0
  /\ ~detail.isEditingRaise
  /\ detail' = [detail EXCEPT !.isEditingRaise = TRUE]
  /\ UNCHANGED <<pc, app, processedEmployees, uploadedFiles, totalBudget,
                 currentBudgetUsage, now, parseVars>>

\* onChange of the input: setTempProposedRaise(Number(e.target.value))
TypeProposedRaise(v) ==
  /\ detail.employee # 0
  /\ detail.isEditingRaise
  /\ detail' = [detail EXCEPT !.tempProposedRaise = v]
  /\ UNCHANGED <<pc, app, processedEmployees, uploadedFiles, totalBudget,
                 currentBudgetUsage, now, parseVars>>

handleProposedRaiseSave ==
  /\ detail.employee # 0
  /\ detail.isEditingRaise
  /\ processedEmployees' =
       handleEmployeeUpdate(processedEmployees,
                            EmployeeKey(processedEmployees[detail.employee]),
                            [proposedRaise |-> detail.tempProposedRaise])
  /\ detail' = useMemo([detail EXCEPT !.isEditingRaise = FALSE],
                       Replaced(processedEmployees, detail.employee,
                                EmployeeKey(processedEmployees[detail.employee])),
                       processedEmployees', totalBudget, currentBudgetUsage, now)
  /\ UNCHANGED <<pc, app, uploadedFiles, totalBudget, currentBudgetUsage, now,
                 parseVars>>

\* a faulty variant: the typed amount is kept on Cancel
handleProposedRaiseCancelKeeping ==
  /\ detail.employee # 0
  /\ detail.isEditingRaise
  /\ detail' = [detail EXCEPT !.isEditingRaise = FALSE]
  /\ UNCHANGED <<pc, app, processedEmployees, uploadedFiles, totalBudget,
                 currentBudgetUsage, now, parseVars>>

handleProposedRaiseCancel ==
  /\ detail.employee # 0
  /\ detail.isEditingRaise
  /\ detail' = [detail EXCEPT
                  !.tempProposedRaise =
                     ProposedRaiseOrZero(processedEmployees[detail.employee]),
                  !.isEditingRaise = FALSE]
  /\ UNCHANGED <<pc, app, processedEmployees, uploadedFiles, totalBudget,
                 currentBudgetUsage, now, parseVars>>

\* a faulty variant: the amount is applied whatever its sign
handleApplyAIRecommendationUnchecked ==
  /\ detail.employee # 0
  /\ processedEmployees' =
       handleEmployeeUpdate(processedEmployees,
                            EmployeeKey(processedEmployees[detail.employee]),
                            [proposedRaise |->
                               detail.analysis.raiseRecommendation.recommendedAmount])
  /\ detail' = useMemo([detail EXCEPT
                          !.tempProposedRaise =
                             detail.analysis.raiseRecommendation.recommendedAmount,
                          !.isEditingRaise = FALSE,
                          !.aiRecommendationApplied = TRUE],
                       Replaced(processedEmployees, detail.employee,
                                EmployeeKey(processedEmployees[detail.employee])),
                       processedEmployees', totalBudget, currentBudgetUsage, now)
  /\ UNCHANGED <<pc, app, uploadedFiles, totalBudget, currentBudgetUsage, now,
                 file, expectedType, result, input, output>>

\* EmployeeDetail.handleApplyAIRecommendation: it returns early on an amount
\* under 0 (the amounts of the analysis are numbers); else it sends the
\* amount as the employee's proposedRaise and ends editing
handleApplyAIRecommendation ==
  /\ detail.employee # 0
  /\ IF detail.analysis.raiseRecommendation.recommendedAmount < 0
     THEN UNCHANGED <<processedEmployees, detail>>
     ELSE /\ processedEmployees' =
               handleEmployeeUpdate(
                 processedEmployees,
                 EmployeeKey(processedEmployees[detail.employee]),
                 [proposedRaise |->
                    detail.analysis.raiseRecommendation.recommendedAmount])
          /\ detail' =
               useMemo([detail EXCEPT
                          !.tempProposedRaise =
                             detail.analysis.raiseRecommendation.recommendedAmount,
                          !.isEditingRaise = FALSE,
                          !.aiRecommendationApplied = TRUE],
                       Replaced(processedEmployees, detail.employee,
                                EmployeeKey(processedEmployees[detail.employee])),
                       processedEmployees', totalBudget, currentBudgetUsage, now)
  /\ UNCHANGED <<pc, app, uploadedFiles, totalBudget, currentBudgetUsage, now,
                 file, expectedType, result, input, output>>

\* the apply button calls the handler; it is disabled unless the
\* recommendation is above 0 and was not just applied
ApplyRecommendationClicked ==
  /\ detail.employee # 0
  /\ detail.analysis.raiseRecommendation.recommendedAmount > 0
  /\ ~detail.aiRecommendationApplied
  /\ handleApplyAIRecommendation
  /\ UNCHANGED trace

\* the handler called whatever the state of the button
ApplyRecommendationCalled ==
  /\ handleApplyAIRecommendation
  /\ trace' = [stage |-> "handleApplyAIRecommendation", info |-> NoInfo]

\* the timer set on applying fires: setAiRecommendationApplied(false)
AppliedTimeout ==
  /\ detail.employee # 0
  /\ detail.aiRecommendationApplied
  /\ detail' = [detail EXCEPT !.aiRecommendationApplied = FALSE]
  /\ UNCHANGED <<pc, app, processedEmployees, uploadedFiles, totalBudget,
                 currentBudgetUsage, now, parseVars>>

\* the dashboard hands EmployeeDetail another totalBudget
TotalBudgetChange(budget) ==
  /\ totalBudget' = budget
  /\ detail' = useMemo(detail, budget # totalBudget, processedEmployees, budget,
                       currentBudgetUsage, now)
  /\ UNCHANGED <<pc, app, processedEmployees, uploadedFiles, currentBudgetUsage, now,
                 parseVars>>

\* the dashboard hands EmployeeDetail another currentBudgetUsage
BudgetUsageChange(usage) ==
  /\ usage # currentBudgetUsage
  /\ currentBudgetUsage' = usage
  /\ detail' = useMemo(detail, TRUE, processedEmployees, totalBudget, usage, now)
  /\ UNCHANGED <<pc, app, processedEmployees, uploadedFiles, totalBudget, now,
                 parseVars>>

\* a month ends while the dashboard is shown: nothing renders
MonthPasses ==
  /\ now < MaxMonth
  /\ now' = now + 1
  /\ UNCHANGED <<pc, app, processedEmployees, uploadedFiles, totalBudget,
                 currentBudgetUsage, detail, parseVars>>

NextDetail ==
  \/ \E i \in 1..2 : SelectEmployee(i)
  \/ CloseDetail
  \/ handleProposedRaiseEdit
  \/ \E v \in TypedAmounts : TypeProposedRaise(v)
  \/ handleProposedRaiseSave
  \/ handleProposedRaiseCancel
  \/ ApplyRecommendationClicked
  \/ AppliedTimeout
  \/ \E budget \in Budgets : TotalBudgetChange(budget)
  \/ \E usage \in Usages : BudgetUsageChange(usage)
  \/ MonthPasses

SpecDetail == InitDetail /\ [][NextDetail]_vars

\* the component with its handler for the recommendation called directly as
\* well
NextApply ==
  \/ NextDetail
  \/ ApplyRecommendationCalled

SpecApply == InitDetail /\ [][NextApply]_vars

---------------------------------------------------------------------------
(* Claims about EmployeeDetail and App.handleEmployeeUpdate, over SpecDetail *)

OtherFields(employee) == DOMAIN employee \ {"proposedRaise"}

\* C18: after ingestion the only employee field a user action changes is
\* proposedRaise: in every step of Edit, Save, Cancel and Apply (and of any
\* other action) every other field of the edited employee and every field
\* of every other employee keeps its value, and the list keeps its length
\* and order.
C18_OnlyProposedRaiseChanges ==
  [][/\ Len(processedEmployees') = Len(processedEmployees)
     /\ \A k \in DOMAIN processedEmployees :
          /\ OtherFields(processedEmployees'[k]) = OtherFields(processedEmployees[k])
          /\ \A f \in OtherFields(processedEmployees[k]) :
               processedEmployees'[k][f] = processedEmployees[k][f]
          /\ k # detail.employee => processedEmployees'[k] = processedEmployees[k]
    ]_vars

\* the typed amount 7 was saved for the first employee, and the recommended
\* amount was applied to the second, who had no proposedRaise or had 0
C18_Witness ==
  /\ detail.employee = 2
  /\ ~detail.isEditingRaise
  /\ detail.aiRecommendationApplied
  /\ processedEmployees[1].proposedRaise = 7
  /\ "proposedRaise" \in DOMAIN processedEmployees[2]
  /\ processedEmployees[2].proposedRaise > 0

\* C19: the analysis that EmployeeDetail displays and applies is never
\* stale: the tenure, salary, retention-risk and raise-recommendation values
\* in use are the ones computed from the current employee, the current
\* totalBudget and currentBudgetUsage, and the current date.
C19_AnalysisNeverStale ==
  detail.employee # 0 =>
    detail.analysis = analysis(processedEmployees[detail.employee], totalBudget,
                               currentBudgetUsage, now)

---------------------------------------------------------------------------
(* App: session recovery, file uploads, view switches and reset *)

MaxUploads == 2

\* name.split(' ')[0] || ''
RECURSIVE FirstWord(_)
FirstWord(name) ==
  IF name = <<>> \/ Head(name) = " " THEN <<>>
  ELSE <<Head(name)>> \o FirstWord(Tail(name))

\* name.split(' ').slice(1).join(' ') || ''
RECURSIVE AfterFirstSpace(_)
AfterFirstSpace(name) ==
  IF name = <<>> THEN <<>>
  ELSE IF Head(name) = " " THEN Tail(name) ELSE AfterFirstSpace(Tail(name))

\* existingEmployees.map(emp => ({ ...emp, firstName, lastName }))
convertedEmployees(existingEmployees) ==
  [k \in DOMAIN existingEmployees |->
     [firstName |-> FirstWord(existingEmployees[k].name),
      lastName |-> AfterFirstSpace(existingEmployees[k].name)]
     @@ existingEmployees[k]]

\* the entry pushed for a file the session names: all rows counted valid,
\* no data
ReconstructedFile(metadata, fileType) ==
  IF metadata = Absent THEN <<>>
  ELSE << FileUploadResult(metadata.name, fileType, metadata.rowCount,
                           metadata.rowCount, <<>>, <<>>) >>

reconstructedFiles(currentSession) ==
  ReconstructedFile(currentSession.fileMetadata.salaryFile, "salary")
  \o ReconstructedFile(currentSession.fileMetadata.performanceFile, "performance")

\* what the persistent store and the backup store hold
StoredEmployees ==
  << [employeeId |-> "E1", name |-> <<"A", "n", " ", "L", "i">>,
      baseSalaryUSD |-> 100, proposedRaise |-> 7],
     [employeeId |-> "E2", name |-> <<"B", "o">>, baseSalaryUSD |-> 200,
      proposedRaise |-> 0] >>

FileMetadata(fileName, rowCount) ==
  [t |-> "file", name |-> fileName, rowCount |-> rowCount]

StoredFiles(base) ==
  {Absent, FileMetadata(FileName(base, "csv"), 0), FileMetadata(FileName(base, "csv"), 2)}

Sessions ==
  { [fileMetadata |-> [salaryFile |-> s, performanceFile |-> p]] :
      s \in StoredFiles("salaries"), p \in StoredFiles("reviews") }

Backups ==
  { [employees |-> e, budget |-> [totalBudget |-> 30, budgetCurrency |-> "EUR"]] :
      e \in {<<>>, StoredEmployees} }

Stores ==
  [employees : {Throw(<<"getEmployees failed">>), Ok(<<>>), Ok(StoredEmployees)},
   session : {Throw(<<"getCurrentSession failed">>), Ok(Absent)}
             \cup {Ok(s) : s \in Sessions},
   backup : {Throw(<<"restoreFromStorage failed">>), Ok(Absent)}
            \cup {Ok(b) : b \in Backups}]

\* the state App is in when recoverSession has run against the store
\* (without the finally): [employees, files, budget, currency, view]
Recovered(employees, files, budget, currency, view) ==
  [employees |-> employees, files |-> files, budget |-> budget,
   currency |-> currency, view |-> view]

FromSession(start, employees, session) ==
  IF IsThrow(session) THEN [start EXCEPT !.employees = employees]
  ELSE IF session.v = Absent
       THEN [start EXCEPT !.employees = employees, !.view = "dashboard"]
       ELSE [start EXCEPT !.employees = employees,
                          !.files = reconstructedFiles(session.v),
                          !.view = "dashboard"]

FromBackup(start, backup) ==
  IF IsThrow(backup) THEN start
  ELSE IF backup.v # Absent /\ Len(backup.v.employees) > 0
       THEN Recovered(backup.v.employees, start.files,
                      backup.v.budget.totalBudget,
                      backup.v.budget.budgetCurrency, "dashboard")
       ELSE start

recoverSession(start, store) ==
  IF IsThrow(store.employees) THEN start
  ELSE IF Len(store.employees.v) > 0
       THEN FromSession(start, convertedEmployees(store.employees.v), store.session)
       ELSE FromBackup(start, store.backup)

\* what a handler of App did: the calls it made to the stores, in order, and
\* whether one of them threw
Called(name, args) == [call |-> name, args |-> args]
Calls(handler, calls, threw) ==
  [stage |-> handler, info |-> [calls |-> calls, threw |-> threw]]

\* AutoBackupService.scheduleBackup(employees, totalBudget, budgetCurrency):
\* the budget and the currency of the call
scheduleBackup(budget, currency) == Called("scheduleBackup", <<budget, currency>>)

\* the store calls of recoverSession, in order
recoverSessionCalls(store) ==
  IF IsThrow(store.employees) THEN <<Called("getEmployees", <<>>)>>
  ELSE IF Len(store.employees.v) > 0
       THEN <<Called("getEmployees", <<>>), Called("getCurrentSession", <<>>)>>
       ELSE <<Called("getEmployees", <<>>), Called("restoreFromStorage", <<>>)>>

recoverSessionThrew(store) ==
  \/ IsThrow(store.employees)
  \/ ~IsThrow(store.employees)
     /\ IF Len(store.employees.v) > 0 THEN IsThrow(store.session)
        ELSE IsThrow(store.backup)

InitApp ==
  /\ pc = "app"
  /\ processedEmployees = <<>>
  /\ uploadedFiles = <<>>
  /\ totalBudget = 0
  /\ app = Constructed
  /\ currentBudgetUsage = 0
  /\ now = 0
  /\ detail = Closed
  /\ file = Nothing
  /\ expectedType = "unknown"
  /\ result = NoResult
  /\ trace = NoTrace
  /\ input = Nothing
  /\ output = Nothing

\* a faulty variant: without the finally block, a thrown failure leaves the
\* loading screen up
RecoverSessionNoFinally(store) ==
  /\ app.isLoadingSession
  /\ LET r == recoverSession(Recovered(processedEmployees, uploadedFiles,
                                       totalBudget, app.budgetCurrency,
                                       app.currentView), store)
     IN  /\ processedEmployees' = r.employees
         /\ uploadedFiles' = r.files
         /\ totalBudget' = r.budget
         /\ app' = [app EXCEPT !.budgetCurrency = r.currency,
                               !.currentView = r.view,
                               !.isLoadingSession = recoverSessionThrew(store)]
  /\ trace' = Calls("recoverSession", recoverSessionCalls(store),
                    recoverSessionThrew(store))
  /\ UNCHANGED <<pc, currentBudgetUsage, now, detail, file, expectedType,
                 result, input, output>>

\* the effect of App's first render runs recoverSession to its end
RecoverSession(store) ==
  /\ app.isLoadingSession
  /\ LET r == recoverSession(Recovered(processedEmployees, uploadedFiles,
                                       totalBudget, app.budgetCurrency,
                                       app.currentView), store)
     IN  /\ processedEmployees' = r.employees
         /\ uploadedFiles' = r.files
         /\ totalBudget' = r.budget
         /\ app' = [app EXCEPT !.budgetCurrency = r.currency,
                               !.currentView = r.view,
                               !.isLoadingSession = FALSE]
  /\ trace' = Calls("recoverSession", recoverSessionCalls(store),
                    recoverSessionThrew(store))
  /\ UNCHANGED <<pc, currentBudgetUsage, now, detail, file, expectedType,
                 result, input, output>>

\* a faulty variant: the switch to the dashboard is skipped
handleRestoreBackupStaying(backupData) ==
  /\ ~app.isLoadingSession
  /\ app.currentView = "upload"
  /\ processedEmployees' = backupData.employees
  /\ totalBudget' = backupData.budget.totalBudget
  /\ app' = [app EXCEPT !.budgetCurrency = backupData.budget.budgetCurrency]
  /\ trace' = Calls("handleRestoreBackup", <<>>, FALSE)
  /\ UNCHANGED <<pc, uploadedFiles, currentBudgetUsage, now, detail, file,
                 expectedType, result, input, output>>

\* App.handleRestoreBackup, called by the backup manager of the upload view
handleRestoreBackup(backupData) ==
  /\ ~app.isLoadingSession
  /\ app.currentView = "upload"
  /\ processedEmployees' = backupData.employees
  /\ totalBudget' = backupData.budget.totalBudget
  /\ app' = [app EXCEPT !.budgetCurrency = backupData.budget.budgetCurrency,
                        !.currentView = "dashboard"]
  /\ trace' = Calls("handleRestoreBackup", <<>>, FALSE)
  /\ UNCHANGED <<pc, uploadedFiles, currentBudgetUsage, now, detail, file,
                 expectedType, result, input, output>>

\* the results parseFile hands to the upload component for a CSV file that it
\* takes for salary or performance data
ParsedResults ==
  { r \in { ResultAlone(c) : c \in CallsTwo } :
      r.fileName.ext = "csv" /\ r.fileType # "unknown" }

ProcessingFailed(message) ==
  ErrorText(<<"Data processing failed: ", message>>)

\* a faulty variant: setUploadedFiles([...uploadedFiles, result]) with the
\* uploadedFiles of the render that made the callback, the first
AppendedToFirstRender(prev, res) == Append(<<>>, res)

\* setUploadedFiles(prev => [...prev, result])
Appended(prev, res) == Append(prev, res)

\* useCallback(..., []): handleFileUpload is the function of the first
\* render and sees the totalBudget and budgetCurrency of that render
handleFileUploadClosure ==
  [totalBudget |-> 0, budgetCurrency |-> Constructed.budgetCurrency]

\* the backup handleFileUpload schedules when there are employees
UploadBackup(employees, closure) ==
  IF Len(employees) > 0
  THEN <<scheduleBackup(closure.totalBudget, closure.budgetCurrency)>>
  ELSE <<>>

\* App.handleFileUpload, from its call to its end with no other handler in
\* between: processUploadedFile and processEmployeeData each return or throw
handleFileUpload(res, processed, employeeData) ==
  /\ ~app.isLoadingSession
  /\ app.currentView = "upload"
  /\ Len(uploadedFiles) < MaxUploads
  /\ IF IsThrow(processed)
     THEN /\ app' = [app EXCEPT !.error = ProcessingFailed(processed.message)]
          /\ trace' = Calls("handleFileUpload", <<>>, TRUE)
          /\ UNCHANGED <<uploadedFiles, processedEmployees>>
     ELSE /\ uploadedFiles' = Appended(uploadedFiles, res)
          /\ IF IsThrow(employeeData)
             THEN /\ app' = [app EXCEPT
                               !.error = ProcessingFailed(employeeData.message)]
                  /\ trace' = Calls("handleFileUpload", <<>>, TRUE)
                  /\ UNCHANGED processedEmployees
             ELSE /\ processedEmployees' = employeeData.v
                  /\ app' = [app EXCEPT
                               !.currentView = IF Len(employeeData.v) > 0
                                               THEN "dashboard" ELSE @,
                               !.error = NoError]
                  /\ trace' = Calls("handleFileUpload",
                                    UploadBackup(employeeData.v,
                                                 handleFileUploadClosure),
                                    FALSE)
  /\ UNCHANGED <<pc, totalBudget, currentBudgetUsage, now, detail, file,
                 expectedType, result, input, output>>

ProcessorOutcomes == {Throw(<<"processing failed">>), Ok(<<>>)}

EmployeeDataOutcomes ==
  {Throw(<<"no salary data">>), Ok(<<>>), Ok(convertedEmployees(StoredEmployees))}

\* the navigation buttons; the dashboard button is disabled without employees
switchView(view) ==
  /\ ~app.isLoadingSession
  /\ view = "dashboard" => Len(processedEmployees) > 0
  /\ app' = [app EXCEPT !.currentView = view, !.error = NoError]
  /\ trace' = Calls("switchView", <<>>, FALSE)
  /\ UNCHANGED <<pc, processedEmployees, uploadedFiles, totalBudget,
                 currentBudgetUsage, now, detail, file, expectedType, result,
                 input, output>>

\* the dashboard calls onEmployeeUpdate: App.handleEmployeeUpdate, with the
\* backup it schedules
EmployeeUpdated(employeeId, updates) ==
  /\ ~app.isLoadingSession
  /\ app.currentView = "dashboard"
  /\ processedEmployees' = handleEmployeeUpdate(processedEmployees, employeeId, updates)
  /\ trace' = Calls("handleEmployeeUpdate",
                    <<scheduleBackup(totalBudget, app.budgetCurrency)>>, FALSE)
  /\ UNCHANGED <<pc, app, uploadedFiles, totalBudget, currentBudgetUsage, now,
                 detail, file, expectedType, result, input, output>>

\* App.handleBudgetChange, called by the dashboard
handleBudgetChange(budget, currency) ==
  /\ ~app.isLoadingSession
  /\ app.currentView = "dashboard"
  /\ totalBudget' = budget
  /\ app' = [app EXCEPT !.budgetCurrency = currency]
  /\ trace' = Calls("handleBudgetChange",
                    IF Len(processedEmployees) > 0
                    THEN <<scheduleBackup(budget, currency)>> ELSE <<>>,
                    FALSE)
  /\ UNCHANGED <<pc, processedEmployees, uploadedFiles, currentBudgetUsage, now,
                 detail, file, expectedType, result, input, output>>

BudgetChanges == {<<50, "USD">>, <<30, "EUR">>}

\* the reset button, shown when there are employees
handleResetConfirm ==
  /\ ~app.isLoadingSession
  /\ Len(processedEmployees) > 0
  /\ ~app.showResetConfirm
  /\ app' = [app EXCEPT !.showResetConfirm = TRUE]
  /\ trace' = Calls("handleResetConfirm", <<>>, FALSE)
  /\ UNCHANGED <<pc, processedEmployees, uploadedFiles, totalBudget,
                 currentBudgetUsage, now, detail, file, expectedType, result,
                 input, output>>

handleResetCancel ==
  /\ app.showResetConfirm
  /\ app' = [app EXCEPT !.showResetConfirm = FALSE]
  /\ trace' = Calls("handleResetCancel", <<>>, FALSE)
  /\ UNCHANGED <<pc, processedEmployees, uploadedFiles, totalBudget,
                 currentBudgetUsage, now, detail, file, expectedType, result,
                 input, output>>

\* the outcomes of DataStorageService.resetAllData and of
\* AutoBackupService.resetAllBackups
ResetOutcomes ==
  [store : {Throw(<<"resetAllData failed">>), Ok(<<>>)},
   backups : {Throw(<<"resetAllBackups failed">>), Ok(<<>>)}]

ResetCalls(reset) ==
  IF IsThrow(reset.store) THEN <<Called("resetAllData", <<>>)>>
  ELSE <<Called("resetAllData", <<>>), Called("resetAllBackups", <<>>)>>

ResetFailure(reset) ==
  IF IsThrow(reset.store) THEN reset.store ELSE reset.backups

\* a faulty variant: the state is cleared before the stores are reset
handleResetDataEagerly(reset) ==
  /\ app.showResetConfirm
  /\ processedEmployees' = <<>>
  /\ uploadedFiles' = <<>>
  /\ totalBudget' = 0
  /\ app' = [app EXCEPT
               !.budgetCurrency = "USD", !.currentView = "upload",
               !.error = IF IsThrow(ResetFailure(reset))
                         THEN ErrorText(<<"Reset failed: ",
                                          ResetFailure(reset).message>>)
                         ELSE NoError,
               !.showResetConfirm = FALSE]
  /\ trace' = Calls("handleResetData", ResetCalls(reset),
                    IsThrow(ResetFailure(reset)))
  /\ UNCHANGED <<pc, currentBudgetUsage, now, detail, file, expectedType,
                 result, input, output>>

\* a faulty variant: the backups are left as they are
handleResetDataStoreOnly(reset) ==
  /\ app.showResetConfirm
  /\ IF IsThrow(reset.store)
     THEN /\ app' = [app EXCEPT
                       !.error = ErrorText(<<"Reset failed: ", reset.store.message>>)]
          /\ UNCHANGED <<processedEmployees, uploadedFiles, totalBudget>>
     ELSE /\ processedEmployees' = <<>>
          /\ uploadedFiles' = <<>>
          /\ totalBudget' = 0
          /\ app' = [app EXCEPT !.budgetCurrency = "USD",
                                !.currentView = "upload",
                                !.error = NoError,
                                !.showResetConfirm = FALSE]
  /\ trace' = Calls("handleResetData", <<Called("resetAllData", <<>>)>>,
                    IsThrow(reset.store))
  /\ UNCHANGED <<pc, currentBudgetUsage, now, detail, file, expectedType,
                 result, input, output>>

\* App.handleResetData, from its call to its end: the two resets return, or
\* one of them throws
handleResetData(reset) ==
  /\ app.showResetConfirm
  /\ IF IsThrow(ResetFailure(reset))
     THEN /\ app' = [app EXCEPT
                       !.error = ErrorText(<<"Reset failed: ",
                                             ResetFailure(reset).message>>)]
          /\ UNCHANGED <<processedEmployees, uploadedFiles, totalBudget>>
     ELSE /\ processedEmployees' = <<>>
          /\ uploadedFiles' = <<>>
          /\ totalBudget' = 0
          /\ app' = [app EXCEPT !.budgetCurrency = "USD",
                                !.currentView = "upload",
                                !.error = NoError,
                                !.showResetConfirm = FALSE]
  /\ trace' = Calls("handleResetData", ResetCalls(reset),
                    IsThrow(ResetFailure(reset)))
  /\ UNCHANGED <<pc, currentBudgetUsage, now, detail, file, expectedType,
                 result, input, output>>

NextApp ==
  \/ \E store \in Stores : RecoverSession(store)
  \/ \E backupData \in Backups : handleRestoreBackup(backupData)
  \/ \E res \in ParsedResults, processed \in ProcessorOutcomes,
        employeeData \in EmployeeDataOutcomes :
       handleFileUpload(res, processed, employeeData)
  \/ \E view \in {"upload", "dashboard"} : switchView(view)
  \/ EmployeeUpdated("E1", [proposedRaise |-> 5])
  \/ \E change \in BudgetChanges : handleBudgetChange(change[1], change[2])
  \/ handleResetConfirm
  \/ handleResetCancel
  \/ \E reset \in ResetOutcomes : handleResetData(reset)

SpecApp == InitApp /\ [][NextApp]_vars

\* the effect that runs recoverSession is run after the first render, and
\* each call it awaits returns or throws
SpecAppLive ==
  InitApp /\ [][NextApp]_vars /\ WF_vars(\E store \in Stores : RecoverSession(store))

---------------------------------------------------------------------------
(* Claims about App's list of uploaded files, over SpecApp *)

\* C20: every FileUploadResult in App's uploadedFiles, the entries rebuilt
\* from the session metadata during session recovery included, has
\* validRows <= rowCount and data.length = validRows.
C20_UploadedFilesCounts ==
  \A k \in DOMAIN uploadedFiles :
    /\ uploadedFiles[k].validRows <= uploadedFiles[k].rowCount
    /\ Len(uploadedFiles[k].data) = uploadedFiles[k].validRows

---------------------------------------------------------------------------
(* Claims about the raise editor of EmployeeDetail, over SpecDetail *)

\* the proposedRaise stored for the employee that EmployeeDetail shows
StoredRaise == ProposedRaiseOrZero(processedEmployees[detail.employee])

\* C21: the edit toggle goes idle -> editing -> saved or cancelled.  In every
\* step of the mounted component on its employee: entering editing changes
\* neither the list nor tempProposedRaise; leaving editing either stores
\* tempProposedRaise as the employee's proposedRaise (Save), or leaves the
\* list alone and resets tempProposedRaise to the stored proposedRaise or 0
\* (Cancel), or stores the recommended amount (Apply); the list changes in no
\* other way, so the stored value is the last one saved; and a toggle that
\* is idle with tempProposedRaise equal to the stored value stays so.  The
\* first render is idle with tempProposedRaise the stored value.
C21_EditToggle ==
  [][/\ (detail.employee = 0 /\ detail'.employee # 0) =>
          /\ ~detail'.isEditingRaise
          /\ detail'.tempProposedRaise = StoredRaise'
     /\ (detail.employee # 0 /\ detail'.employee = detail.employee) =>
          LET applied == /\ ~detail.aiRecommendationApplied
                         /\ detail'.aiRecommendationApplied
                         /\ StoredRaise' = detail.analysis.raiseRecommendation.recommendedAmount
                         /\ detail'.tempProposedRaise = StoredRaise'
                         /\ ~detail'.isEditingRaise
              saved == /\ detail.isEditingRaise
                       /\ ~detail'.isEditingRaise
                       /\ "proposedRaise" \in DOMAIN processedEmployees'[detail.employee]
                       /\ StoredRaise' = detail.tempProposedRaise
                       /\ detail'.tempProposedRaise = detail.tempProposedRaise
              cancelled == /\ detail.isEditingRaise
                           /\ ~detail'.isEditingRaise
                           /\ processedEmployees' = processedEmployees
                           /\ detail'.tempProposedRaise = StoredRaise
          IN  /\ (~detail.isEditingRaise /\ detail'.isEditingRaise) =>
                   /\ processedEmployees' = processedEmployees
                   /\ detail'.tempProposedRaise = detail.tempProposedRaise
              /\ (detail.isEditingRaise /\ ~detail'.isEditingRaise) =>
                   saved \/ cancelled \/ applied
              /\ processedEmployees' # processedEmployees => saved \/ applied
              /\ (~detail.isEditingRaise => detail.tempProposedRaise = StoredRaise)
                 => (~detail'.isEditingRaise => detail'.tempProposedRaise = StoredRaise')
    ]_vars

\* the amount 7 was typed and saved for the first employee: the toggle is
\* idle again and both amounts are 7
C21_Witness ==
  /\ detail.employee = 1
  /\ ~detail.isEditingRaise
  /\ ~detail.aiRecommendationApplied
  /\ detail.tempProposedRaise = 7
  /\ processedEmployees[1].proposedRaise = 7

---------------------------------------------------------------------------
(* Claims about App's views, session recovery, backups and reset, over
   SpecApp *)

\* C22: in every state App reaches after session recovery, by uploads, backup
\* restores, view switches, employee updates, budget changes and resets, the
\* dashboard view is shown only with a non-empty list of employees.
C22_DashboardHasEmployees ==
  (~app.isLoadingSession /\ app.currentView = "dashboard") =>
    Len(processedEmployees) > 0

\* C23: session recovery always finishes: isLoadingSession eventually becomes
\* false; while it is true the only step is the one of recoverSession, which
\* ends with isLoadingSession false and error null whether or not a call of
\* it threw, so no upload, restore, update, budget or reset handler runs
\* while it is true.
C23_RecoveryFinishes ==
  /\ <>(~app.isLoadingSession)
  /\ [][app.isLoadingSession =>
          /\ trace'.stage = "recoverSession"
          /\ ~app'.isLoadingSession
          /\ app'.error = NoError]_vars

C23_Witness ==
  /\ trace.stage = "recoverSession"
  /\ trace.info.threw
  /\ ~app.isLoadingSession
  /\ app.error = NoError

\* the calls of the handler that ran last include one of this name
HasCalled(calls, name) == \E k \in DOMAIN calls : calls[k].call = name

\* C24: after a recovery in which the persistent store returned a non-empty
\* list of employees, processedEmployees holds the converted entry of each
\* stored employee, in order, and currentView is 'dashboard'; and the backup
\* store is read only when the persistent store returned no employees.
C24_RecoveredFromStore ==
  [][\A store \in Stores :
       RecoverSession(store) =>
         /\ (~IsThrow(store.employees) /\ Len(store.employees.v) > 0) =>
              /\ processedEmployees' = convertedEmployees(store.employees.v)
              /\ app'.currentView = "dashboard"
         /\ HasCalled(trace'.info.calls, "restoreFromStorage") =>
              /\ ~IsThrow(store.employees)
              /\ Len(store.employees.v) = 0]_vars

\* C25: every scheduleBackup call App makes passes the totalBudget and the
\* budgetCurrency that App holds when the call is made; so the backup that
\* the end of a file upload schedules carries a budget that was set through
\* handleBudgetChange or restored from a backup before.
C25_BackupCarriesBudget ==
  [][\A k \in DOMAIN trace'.info.calls :
       trace'.info.calls[k].call = "scheduleBackup" =>
         trace'.info.calls[k].args = <<totalBudget', app'.budgetCurrency>>]_vars

\* C26: a handleResetData in which no reset fails leaves processedEmployees
\* and uploadedFiles empty, totalBudget 0, budgetCurrency 'USD', currentView
\* 'upload', error null and showResetConfirm false, and has invoked the reset
\* of the persistent store and the reset of the backups.
C26_ResetClearsAll ==
  [][(trace'.stage = "handleResetData" /\ ~trace'.info.threw) =>
       /\ processedEmployees' = <<>>
       /\ uploadedFiles' = <<>>
       /\ totalBudget' = 0
       /\ app' = AppState("upload", NoError, FALSE, FALSE, "USD")
       /\ HasCalled(trace'.info.calls, "resetAllData")
       /\ HasCalled(trace'.info.calls, "resetAllBackups")]_vars

\* the state after a reset in which both resets returned
C26_Witness ==
  /\ trace.stage = "handleResetData"
  /\ ~trace.info.threw
  /\ processedEmployees = <<>>
  /\ app.currentView = "upload"
  /\ ~app.showResetConfirm

\* C27: when the reset of the persistent store or the reset of the backups
\* fails inside handleResetData, processedEmployees, uploadedFiles,
\* totalBudget, budgetCurrency and currentView stay as they were and error
\* is a message that starts with "Reset failed: ".
C27_FailedResetKeepsState ==
  [][(trace'.stage = "handleResetData" /\ trace'.info.threw) =>
       /\ UNCHANGED <<processedEmployees, uploadedFiles, totalBudget>>
       /\ app'.budgetCurrency = app.budgetCurrency
       /\ app'.currentView = app.currentView
       /\ app'.error # NoError
       /\ app'.error.message[1] = "Reset failed: "]_vars

\* a reset whose backup reset failed after the store reset returned, on a
\* state with employees
C27_Witness ==
  /\ trace.stage = "handleResetData"
  /\ trace.info.threw
  /\ HasCalled(trace.info.calls, "resetAllBackups")
  /\ Len(processedEmployees) > 0
  /\ app.error = ErrorText(<<"Reset failed: ", <<"resetAllBackups failed">> >>)

---------------------------------------------------------------------------
(* Two invocations of App.handleFileUpload that interleave at their awaits. *)
(* Here pc holds one entry per invocation and input holds the two calls:    *)
(* the result uploaded and what processUploadedFile and                     *)
(* processEmployeeData answer.                                              *)

UploadCalls ==
  [res : ParsedResults, processed : ProcessorOutcomes,
   employeeData : EmployeeDataOutcomes]

InitUploads ==
  /\ pc = [i \in Invocations |-> "idle"]
  /\ input \in [Invocations -> UploadCalls]
  /\ processedEmployees = <<>>
  /\ uploadedFiles \in {<<>>} \cup {<<r>> : r \in ParsedResults}
  /\ totalBudget = 0
  /\ app = AppState("upload", NoError, FALSE, FALSE, "USD")
  /\ currentBudgetUsage = 0
  /\ now = 0
  /\ detail = Closed
  /\ file = Nothing
  /\ expectedType = "unknown"
  /\ result = NoResult
  /\ trace = NoTrace
  /\ output = Nothing

\* the upload view calls handleFileUpload, which runs to
\* await DataProcessor.processUploadedFile(result)
UploadCalled(i) ==
  /\ pc[i] = "idle"
  /\ ~app.isLoadingSession
  /\ app.currentView = "upload"
  /\ pc' = [pc EXCEPT ![i] = "processUploadedFile"]
  /\ UNCHANGED <<input, appVars, file, expectedType, result, trace, output>>

\* processUploadedFile returns or throws: the result is appended and
\* handleFileUpload runs to await DataProcessor.processEmployeeData(), or the
\* catch sets the error
UploadProcessed(i) ==
  /\ pc[i] = "processUploadedFile"
  /\ IF IsThrow(input[i].processed)
     THEN /\ app' = [app EXCEPT
                       !.error = ProcessingFailed(input[i].processed.message)]
          /\ trace' = Calls("handleFileUpload", <<>>, TRUE)
          /\ pc' = [pc EXCEPT ![i] = "failed"]
          /\ UNCHANGED uploadedFiles
     ELSE /\ uploadedFiles' = Appended(uploadedFiles, input[i].res)
          /\ pc' = [pc EXCEPT ![i] = "processEmployeeData"]
          /\ UNCHANGED <<app, trace>>
  /\ UNCHANGED <<input, processedEmployees, totalBudget, currentBudgetUsage,
                 now, detail, file, expectedType, result, output>>

\* processEmployeeData returns or throws: the employees are set, the view
\* switches when there are some, the backup is scheduled and the error is
\* cleared, or the catch sets the error
UploadFinished(i) ==
  /\ pc[i] = "processEmployeeData"
  /\ IF IsThrow(input[i].employeeData)
     THEN /\ app' = [app EXCEPT
                       !.error = ProcessingFailed(input[i].employeeData.message)]
          /\ trace' = Calls("handleFileUpload", <<>>, TRUE)
          /\ pc' = [pc EXCEPT ![i] = "failed"]
          /\ UNCHANGED processedEmployees
     ELSE /\ processedEmployees' = input[i].employeeData.v
          /\ app' = [app EXCEPT
                       !.currentView = IF Len(input[i].employeeData.v) > 0
                                       THEN "dashboard" ELSE @,
                       !.error = NoError]
          /\ trace' = Calls("handleFileUpload",
                            UploadBackup(input[i].employeeData.v,
                                         handleFileUploadClosure),
                            FALSE)
          /\ pc' = [pc EXCEPT ![i] = "done"]
  /\ UNCHANGED <<input, uploadedFiles, totalBudget, currentBudgetUsage, now,
                 detail, file, expectedType, result, output>>

NextUploads ==
  \/ \E i \in Invocations : UploadCalled(i)
  \/ \E i \in Invocations : UploadProcessed(i)
  \/ \E i \in Invocations : UploadFinished(i)

SpecUploads == InitUploads /\ [][NextUploads]_vars

\* C28: when invocations of handleFileUpload overlap, each one whose
\* processUploadedFile succeeds appends its result to uploadedFiles exactly
\* once, at the end of the list as it is then, and no other step changes the
\* list, so no entry is lost or overwritten; one whose processUploadedFile
\* fails appends nothing and sets error to a message that starts with
\* "Data processing failed: ".
C28_EachUploadAppendsOnce ==
  [][\A i \in Invocations :
       /\ (pc[i] = "processUploadedFile" /\ pc'[i] = "processEmployeeData") =>
            uploadedFiles' = Append(uploadedFiles, input[i].res)
       /\ (pc[i] = "processUploadedFile" /\ pc'[i] = "failed") =>
            /\ uploadedFiles' = uploadedFiles
            /\ app'.error # NoError
            /\ app'.error.message[1] = "Data processing failed: "
       /\ (pc[i] = "processUploadedFile" /\ pc'[i] # pc[i]) =>
            (pc'[i] = "failed") = IsThrow(input[i].processed)
       /\ (pc[i] # "processUploadedFile"
           /\ pc[3 - i] = pc'[3 - i]) => uploadedFiles' = uploadedFiles]_vars

\* both invocations have ended, each with employees, so the second was
\* called before the first switched to the dashboard; both results were
\* appended after an entry that was there before, the second call's first
C28_Witness ==
  /\ pc = [i \in Invocations |-> "done"]
  /\ \A i \in Invocations : Len(input[i].employeeData.v) > 0
  /\ Len(uploadedFiles) = 3
  /\ uploadedFiles[2] = input[2].res
  /\ uploadedFiles[3] = input[1].res
  /\ input[1].res # input[2].res

---------------------------------------------------------------------------
(* Claims about applying the recommendation in EmployeeDetail, over        *)
(* SpecApply                                                               *)

C29_WitnessNegative ==
  /\ trace.stage = "handleApplyAIRecommendation"
  /\ detail.employee # 0
  /\ ~detail.aiRecommendationApplied
  /\ detail.analysis.raiseRecommendation.recommendedAmount < 0

---------------------------------------------------------------------------
(* mapColumns on rows in which two columns map to the same field *)

\* pairs of salary headers of one canonical field
SameFieldHeaders ==
  { <<"business title", "job family">>, <<"job family", "business title">>,
    <<"job_title", "title">>, <<"title", "job_title">>,
    <<"base pay all countries", "total base pay">>,
    <<"total base pay", "base pay all countries">> }

SameFieldValues ==
  { Str(<<>>), Str(<<"7">>), Str(<<"h", "i", "g", "h">>), Undefined }

\* the two columns, alone or with a column of another field after them
SameFieldRows(headers, first, second) ==
  { << <<Plain(headers[1]), first>>, <<Plain(headers[2]), second>> >>,
    << <<Plain(headers[1]), first>>, <<Plain(headers[2]), second>>,
       <<Plain("employee_id"), Str(E100)>> >> }

SameFieldCalls ==
  UNION { { [purpose |-> "same field", table |-> "salary", row |-> row] :
              row \in SameFieldRows(headers, first, second) } :
            headers \in SameFieldHeaders, first \in SameFieldValues,
            second \in SameFieldValues }

InitSameField ==
  /\ AppAbsent
  /\ pc = "mapping"
  /\ input \in SameFieldCalls
  /\ output = Nothing
  /\ file = Nothing
  /\ expectedType = "unknown"
  /\ result = NoResult
  /\ trace = NoTrace

SpecSameField == InitSameField /\ [][NextMap]_vars

\* the field the i-th column of the row maps to
FieldOfColumn(call, i) ==
  Lookup(MappingsOf(call.table), HeaderTrim(HeaderToLowerCase(call.row[i][1])))

\* C30: when several columns of a raw row map to the same canonical field,
\* the mapped value of the field is the value of the one that comes last in
\* the row's column order, coerced as that column's cell, even when that
\* value is empty and the value of an earlier one was not.
C30_LastColumnWins ==
  pc = "mapped" =>
    /\ ~IsThrow(output)
    /\ \A i \in DOMAIN input.row :
         (/\ Truthy(FieldOfColumn(input, i))
          /\ \A j \in DOMAIN input.row :
               j > i => FieldOfColumn(input, j) # FieldOfColumn(input, i)) =>
           ObjGet(output.v[1], PropertyKey(FieldOfColumn(input, i)))
             = CoerceValue(FieldOfColumn(input, i), input.row[i][2])

\* 'business title' holds a text and 'job family' after it is empty: the
\* mapped jobTitle is empty
C30_Witness ==
  /\ pc = "mapped"
  /\ Len(input.row) = 3
  /\ input.row[1] = <<Plain("business title"), Str(<<"h", "i", "g", "h">>)>>
  /\ input.row[2] = <<Plain("job family"), Str(<<>>)>>
  /\ ~IsThrow(output)
  /\ ObjGet(output.v[1], "jobTitle") = Str(<<>>)
====
